---- MODULE Spec2Model ----
(***************************************************************************)
(* RecuRun: generator-driven recursion.  Two driver invocations run side   *)
(* by side, each on its own root generator: the explicit-stack driver      *)
(* `run` and the stackless driver `runTail` of src/src/index.ts, and the   *)
(* asynchronous variants runAsyncImpl / runTailAsyncImpl listed in         *)
(* src/README.md.  Generator objects live in a heap, one heap per          *)
(* invocation (invocations never share generators).                        *)
(***************************************************************************)
EXTENDS Integers, Sequences, FiniteSets, TLC

\* ------------------------------------------------------------------ bounds
\* largest argument n handed to a root generator
MaxN == 6
\* largest accumulator seed of the accumulator-style generators
MaxSeed == 2
\* the pre-allocated capacity of run's frame array (1024 in the source),
\* scaled so that the recursions of depth MaxN outgrow it
StackCapacity == 4

Drivers == {1, 2}

VARIABLES args, heap, mode, pc, stack, stackSize, current, ret, r, result, log

vars == <<args, heap, mode, pc, stack, stackSize, current, ret, r, result, log>>

\* ------------------------------------------------------------------ values
\* A JavaScript value: a tag and a payload (a number, or a heap address).
V(t, v) == [t |-> t, v |-> v]
Null == V("null", 0)
Undefined == V("undefined", 0)
NaN == V("NaN", 0)
Str == V("string", 0)
Num(n) == V("number", n)
Bool(b) == V("boolean", IF b THEN 1 ELSE 0)
Ref(id) == V("ref", id)
\* the Error object thrown by the generator at heap address id
Err(id) == V("error", id)
\* the engine's TypeError for `x.next is not a function` / reading a
\* property of undefined
TypeError == V("error", 0)

\* A heap object.  cls is the object's class; fn, n, acc the generator
\* function and its arguments (for a Function: those of the generator the
\* arrow function creates, of class mk); pc and loc the generator's
\* continuation; st its lifecycle state (start, yield, or closed: done by a
\* return, failed by a throw); by the generator whose body created the
\* object (0 for a root).
Obj(cls, mk, fn, n, acc, by) ==
    [cls |-> cls, mk |-> mk, fn |-> fn, n |-> n, acc |-> acc,
     pc |-> 0, loc |-> Null, st |-> "start", by |-> by]

IsRef(v) == v.t = "ref"

\* typeof v
TypeOf(h, v) ==
    CASE v.t = "ref" -> IF h[v.v].cls = "Function" THEN "function" ELSE "object"
      [] v.t \in {"null", "error"} -> "object"
      [] v.t = "NaN" -> "number"
      [] OTHER -> v.t

\* typeof v[Symbol.iterator] === 'function'
HasIterator(h, v) == IsRef(v) /\ h[v.v].cls \in {"Generator", "Iterable"}

\* typeof v[Symbol.asyncIterator] === 'function'
HasAsyncIterator(h, v) == IsRef(v) /\ h[v.v].cls \in {"AsyncGenerator", "AsyncIterable"}

\* v[Symbol.toStringTag]
ToStringTag(h, v) ==
    IF IsRef(v) /\ h[v.v].cls \in {"Generator", "AsyncGenerator"}
    THEN h[v.v].cls ELSE "none"

\* isGenerator without the test of Symbol.toStringTag
isGeneratorUntagged(h, v) ==
    /\ TypeOf(h, v) = "object"
    /\ v # Null
    /\ HasIterator(h, v)

\* isGenerator with the typeof test written for the generator function
isGeneratorTypeofFunction(h, v) ==
    /\ TypeOf(h, v) = "function"
    /\ v # Null
    /\ HasIterator(h, v)
    /\ ToStringTag(h, v) = "Generator"

isGenerator(h, v) ==
    /\ TypeOf(h, v) = "object"
    /\ v # Null
    /\ HasIterator(h, v)
    /\ ToStringTag(h, v) = "Generator"

\* isAsyncGenerator testing Symbol.iterator, as isGenerator does
isAsyncGeneratorSyncIterator(h, v) ==
    /\ TypeOf(h, v) = "object"
    /\ v # Null
    /\ HasIterator(h, v)
    /\ ToStringTag(h, v) = "AsyncGenerator"

isAsyncGenerator(h, v) ==
    /\ TypeOf(h, v) = "object"
    /\ v # Null
    /\ HasAsyncIterator(h, v)
    /\ ToStringTag(h, v) = "AsyncGenerator"

\* ------------------------------------------------------------ arithmetic
\* a + b and a * b on JavaScript values (null converts to 0, undefined to
\* NaN, an object operand makes + a string concatenation).
IsNumeric(v) == v.t \in {"number", "null"}
ToNumber(v) == IF v.t = "number" THEN v.v ELSE 0

Plus(a, b) ==
    IF IsNumeric(a) /\ IsNumeric(b) THEN Num(ToNumber(a) + ToNumber(b))
    ELSE IF a.t \in {"ref", "string", "error"} \/ b.t \in {"ref", "string", "error"}
         THEN Str ELSE NaN

Times(a, b) ==
    IF IsNumeric(a) /\ IsNumeric(b) THEN Num(ToNumber(a) * ToNumber(b)) ELSE NaN

\* ------------------------------------------------------- generator bodies
\* The outcome of running a generator body from its suspension point to the
\* next yield, return or throw: k the kind, v the value, g the generator
\* afterwards, new the objects the body allocated on the way.
Yield(g, v, new) ==
    [k |-> "yield", v |-> v, g |-> [g EXCEPT !.pc = @ + 1, !.st = "yield"], new |-> new]
Return(g, v) ==
    [k |-> "return", v |-> v, g |-> [g EXCEPT !.st = "done"], new |-> <<>>]
Throw(g, v) ==
    [k |-> "throw", v |-> v, g |-> [g EXCEPT !.st = "failed"], new |-> <<>>]

\* `yield fn(n, acc)`: the call creates a generator of the caller's own
\* kind (function* calls function*, async function* calls async function*)
\* at the next free heap address nid and the body suspends with it.
YieldCall(g, self, nid, fn, n, acc) ==
    Yield(g, Ref(nid), <<Obj(g.cls, g.cls, fn, n, acc, self)>>)

\* `yield () => fn(n, acc)`: the body suspends with an arrow function that
\* creates the generator only when it is called.
YieldThunk(g, self, nid, fn, n, acc) ==
    Yield(g, Ref(nid), <<Obj("Function", g.cls, fn, n, acc, self)>>)

\* the test's tree: node i has value i, children 2i and 2i+1 (nodes 1..7);
\* 0 stands for an absent node
TreeSize == 7
Left(i) == IF 2 * i <= TreeSize THEN 2 * i ELSE 0
Right(i) == IF 2 * i + 1 <= TreeSize THEN 2 * i + 1 ELSE 0

\* function* factorial(n) { if (n <= 1) return 1; return n * (yield factorial(n - 1)); }
factorial(g, self, nid, x) ==
    CASE g.pc = 0 -> IF g.n <= 1 THEN Return(g, Num(1))
                     ELSE YieldCall(g, self, nid, "factorial", g.n - 1, 0)
      [] OTHER -> Return(g, Times(Num(g.n), x))

\* function* fibonacci(n) { if (n <= 2) return 1;
\*   const a = yield fibonacci(n - 1); const b = yield fibonacci(n - 2); return a + b; }
fibonacci(g, self, nid, x) ==
    CASE g.pc = 0 -> IF g.n <= 2 THEN Return(g, Num(1))
                     ELSE YieldCall(g, self, nid, "fibonacci", g.n - 1, 0)
      [] g.pc = 1 -> YieldCall([g EXCEPT !.loc = x], self, nid, "fibonacci", g.n - 2, 0)
      [] OTHER -> Return(g, Plus(g.loc, x))

\* function* deepSum(n) { if (n <= 0) return 0; return n + (yield deepSum(n - 1)); }
deepSum(g, self, nid, x) ==
    CASE g.pc = 0 -> IF g.n <= 0 THEN Return(g, Num(0))
                     ELSE YieldCall(g, self, nid, "deepSum", g.n - 1, 0)
      [] OTHER -> Return(g, Plus(Num(g.n), x))

\* function* traverse(node) { if (!node) return 0;
\*   const left = yield traverse(node.left); const right = yield traverse(node.right);
\*   return node.value + left + right; }
traverse(g, self, nid, x) ==
    CASE g.pc = 0 -> IF g.n = 0 THEN Return(g, Num(0))
                     ELSE YieldCall(g, self, nid, "traverse", Left(g.n), 0)
      [] g.pc = 1 -> YieldCall([g EXCEPT !.loc = x], self, nid, "traverse", Right(g.n), 0)
      [] OTHER -> Return(g, Plus(Plus(Num(g.n), g.loc), x))

\* function* factorial(n, acc = 1) { if (n <= 1) return acc; return yield factorial(n - 1, acc * n); }
factorialTail(g, self, nid, x) ==
    CASE g.pc = 0 -> IF g.n <= 1 THEN Return(g, Num(g.acc))
                     ELSE YieldCall(g, self, nid, "factorialTail", g.n - 1, g.acc * g.n)
      [] OTHER -> Return(g, x)

\* function* deepCounter(n) { if (n <= 0) return 0; return yield deepCounter(n - 1); }
deepCounter(g, self, nid, x) ==
    CASE g.pc = 0 -> IF g.n <= 0 THEN Return(g, Num(0))
                     ELSE YieldCall(g, self, nid, "deepCounter", g.n - 1, 0)
      [] OTHER -> Return(g, x)

\* function* sum(n, acc = 0) { if (n <= 0) return acc; return yield sum(n - 1, acc + n); }
sum(g, self, nid, x) ==
    CASE g.pc = 0 -> IF g.n <= 0 THEN Return(g, Num(g.acc))
                     ELSE YieldCall(g, self, nid, "sum", g.n - 1, g.acc + g.n)
      [] OTHER -> Return(g, x)

\* the accumulator factorial with the recursive call deferred:
\* function* factorialThunk(n, acc) { if (n <= 1) return acc;
\*   return yield () => factorialThunk(n - 1, acc * n); }
factorialThunk(g, self, nid, x) ==
    CASE g.pc = 0 -> IF g.n <= 1 THEN Return(g, Num(g.acc))
                     ELSE YieldThunk(g, self, nid, "factorialThunk", g.n - 1, g.acc * g.n)
      [] OTHER -> Return(g, x)

\* a generator that also suspends with a plain value and uses what it gets back:
\* function* plainSum(n) { if (n <= 0) return 0; const x = yield n;
\*   const rest = yield plainSum(n - 1); return x + rest; }
plainSum(g, self, nid, x) ==
    CASE g.pc = 0 -> IF g.n <= 0 THEN Return(g, Num(0))
                     ELSE Yield(g, Num(g.n), <<>>)
      [] g.pc = 1 -> YieldCall([g EXCEPT !.loc = x], self, nid, "plainSum", g.n - 1, 0)
      [] OTHER -> Return(g, Plus(g.loc, x))

\* The values the tests hand to isGenerator, by index: undefined, null, {},
\* { [Symbol.iterator]: () => {} }, { [Symbol.asyncIterator]: () => {} },
\* () => {}, and a number.
SampleKind(n) ==
    CASE n = 0 -> "undefined"
      [] n = 1 -> "null"
      [] n = 2 -> "Object"
      [] n = 3 -> "Iterable"
      [] n = 4 -> "AsyncIterable"
      [] n = 5 -> "Function"
      [] OTHER -> "number"

\* the value of kind k, and the object its evaluation allocates at nid
Sample(k, n, by, nid) ==
    CASE k = "undefined" -> [v |-> Undefined, new |-> <<>>]
      [] k = "null" -> [v |-> Null, new |-> <<>>]
      [] k = "number" -> [v |-> Num(n), new |-> <<>>]
      [] k = "Function" -> [v |-> Ref(nid), new |-> <<Obj("Function", "undefined", "none", n, 0, by)>>]
      [] OTHER -> [v |-> Ref(nid), new |-> <<Obj(k, k, "none", n, 0, by)>>]

\* function* sampler(n) { return yield SAMPLE[n]; }
sampler(g, self, nid, x) ==
    CASE g.pc = 0 -> Yield(g, Sample(SampleKind(g.n), g.n, self, nid).v,
                           Sample(SampleKind(g.n), g.n, self, nid).new)
      [] OTHER -> Return(g, x)

\* function* samplerThunk(n) { return yield () => SAMPLE[n]; }
samplerThunk(g, self, nid, x) ==
    CASE g.pc = 0 -> Yield(g, Ref(nid), <<Obj("Function", SampleKind(g.n), "samplerThunk", g.n, 0, self)>>)
      [] OTHER -> Return(g, x)

\* a generator that defers to an arrow function returning a number, not a generator:
\* function* badThunk(n) { if (n <= 0) return 0; return yield () => n; }
badThunk(g, self, nid, x) ==
    CASE g.pc = 0 -> IF g.n <= 0 THEN Return(g, Num(0))
                     ELSE Yield(g, Ref(nid), <<Obj("Function", "number", "badThunk", g.n, 0, self)>>)
      [] OTHER -> Return(g, x)

\* a recursion whose innermost call fails:
\* function* failing(n) { if (n <= 0) throw new Error(); return n + (yield failing(n - 1)); }
failing(g, self, nid, x) ==
    CASE g.pc = 0 -> IF g.n <= 0 THEN Throw(g, Err(self))
                     ELSE YieldCall(g, self, nid, "failing", g.n - 1, 0)
      [] OTHER -> Return(g, Plus(Num(g.n), x))

\* function* isEven(n) { if (n === 0) return true; return yield isOdd(n - 1); }
isEven(g, self, nid, x) ==
    CASE g.pc = 0 -> IF g.n = 0 THEN Return(g, Bool(TRUE))
                     ELSE YieldCall(g, self, nid, "isOdd", g.n - 1, 0)
      [] OTHER -> Return(g, x)

\* function* isOdd(n) { if (n === 0) return false; return yield isEven(n - 1); }
isOdd(g, self, nid, x) ==
    CASE g.pc = 0 -> IF g.n = 0 THEN Return(g, Bool(FALSE))
                     ELSE YieldCall(g, self, nid, "isEven", g.n - 1, 0)
      [] OTHER -> Return(g, x)
\* ackermann with the second nested call built from its own argument n
\* in place of the value the first nested call handed back.
ackermannStaleInner(g, self, nid, x) ==
    CASE g.pc = 0 -> IF g.n = 0 THEN Return(g, Plus(Num(g.acc), Num(1)))
                     ELSE IF g.acc = 0 THEN YieldCall(g, self, nid, "ackermann", g.n - 1, 1)
                     ELSE YieldCall(g, self, nid, "ackermann", g.n, g.acc - 1)
      [] g.pc = 1 /\ g.acc # 0 ->
                     YieldCall(g, self, nid, "ackermann", g.n - 1, g.acc)
      [] OTHER -> Return(g, x)

\* function* ackermann(m, n) { if (m === 0) return n + 1;
\*   if (n === 0) return yield ackermann(m - 1, 1);
\*   const inner = yield ackermann(m, n - 1); return yield ackermann(m - 1, inner); }
\* The object holds m in n and n in acc.  The second call takes the value
\* the generator was resumed with as its argument.
ackermann(g, self, nid, x) ==
    CASE g.pc = 0 -> IF g.n = 0 THEN Return(g, Plus(Num(g.acc), Num(1)))
                     ELSE IF g.acc = 0 THEN YieldCall(g, self, nid, "ackermann", g.n - 1, 1)
                     ELSE YieldCall(g, self, nid, "ackermann", g.n, g.acc - 1)
      [] g.pc = 1 /\ g.acc # 0 /\ x.t = "number" ->
                     YieldCall(g, self, nid, "ackermann", g.n - 1, x.v)
      [] OTHER -> Return(g, x)

\* Programs that break the drivers' contract.
\* function* crossCall(n) { return yield counter(n); } where counter is the
\* deepCounter of the other kind: async function* for a function* caller,
\* function* for an async function* caller.
OtherClass(cls) == IF cls = "Generator" THEN "AsyncGenerator" ELSE "Generator"
crossCall(g, self, nid, x) ==
    CASE g.pc = 0 -> Yield(g, Ref(nid),
                           <<Obj(OtherClass(g.cls), OtherClass(g.cls), "deepCounter", g.n, 0, self)>>)
      [] OTHER -> Return(g, x)

\* function* yieldTwice(n) { const c = deepSum(n); yield c; return yield c; }
yieldTwice(g, self, nid, x) ==
    CASE g.pc = 0 -> Yield([g EXCEPT !.loc = Ref(nid)], Ref(nid),
                           <<Obj(g.cls, g.cls, "deepSum", g.n, 0, self)>>)
      [] g.pc = 1 -> Yield(g, g.loc, <<>>)
      [] OTHER -> Return(g, x)

Body(g, self, nid, x) ==
    CASE g.fn = "factorial" -> factorial(g, self, nid, x)
      [] g.fn = "fibonacci" -> fibonacci(g, self, nid, x)
      [] g.fn = "deepSum" -> deepSum(g, self, nid, x)
      [] g.fn = "traverse" -> traverse(g, self, nid, x)
      [] g.fn = "factorialTail" -> factorialTail(g, self, nid, x)
      [] g.fn = "deepCounter" -> deepCounter(g, self, nid, x)
      [] g.fn = "sum" -> sum(g, self, nid, x)
      [] g.fn = "factorialThunk" -> factorialThunk(g, self, nid, x)
      [] g.fn = "plainSum" -> plainSum(g, self, nid, x)
      [] g.fn = "failing" -> failing(g, self, nid, x)
      [] g.fn = "badThunk" -> badThunk(g, self, nid, x)
      [] g.fn = "sampler" -> sampler(g, self, nid, x)
      [] g.fn = "samplerThunk" -> samplerThunk(g, self, nid, x)
      [] g.fn = "isEven" -> isEven(g, self, nid, x)
      [] g.fn = "isOdd" -> isOdd(g, self, nid, x)
      [] g.fn = "ackermann" -> ackermann(g, self, nid, x)
      [] g.fn = "crossCall" -> crossCall(g, self, nid, x)
      [] g.fn = "yieldTwice" -> yieldTwice(g, self, nid, x)

\* c.next(x), as the language defines it: a finished generator answers
\* {done: true, value: undefined}; a value without a next method makes the
\* call itself throw a TypeError.  The result carries the heap afterwards.
GenNext(h, c, x) ==
    IF ~(IsRef(c) /\ h[c.v].cls \in {"Generator", "AsyncGenerator"})
    THEN [k |-> "throw", v |-> TypeError, h |-> h]
    ELSE IF h[c.v].st \in {"done", "failed"}
    THEN [k |-> "return", v |-> Undefined, h |-> h]
    ELSE LET o == Body(h[c.v], c.v, Len(h) + 1, x)
         IN [k |-> o.k, v |-> o.v, h |-> [h EXCEPT ![c.v] = o.g] \o o.new]

\* f(): calling the arrow function at f creates the generator it closes
\* over (or, for an arrow function that makes no generator, evaluates to
\* its sample value)
CallFn(h, f) ==
    LET o == h[f.v]
    IN IF o.mk \notin {"Generator", "AsyncGenerator"}
       THEN [v |-> Sample(o.mk, o.n, o.by, Len(h) + 1).v,
             h |-> h \o Sample(o.mk, o.n, o.by, Len(h) + 1).new]
       ELSE [v |-> Ref(Len(h) + 1),
             h |-> Append(h, Obj(o.mk, o.mk, o.fn, o.n, o.acc, o.by))]

\* ---------------------------------------------------------------- drivers
SyncModes == {"run", "runTail"}
AsyncModes == {"runAsync", "runTailAsync"}
AsyncOf(m) == IF m = "run" THEN "runAsync" ELSE "runTailAsync"
RootClass(m) == IF m \in SyncModes THEN "Generator" ELSE "AsyncGenerator"
\* the entry point of a variant: run or runTail
Entry(m) == IF m \in {"run", "runAsync"} THEN "run" ELSE "runTail"

\* the entry points choosing the synchronous loop for what isGenerator
\* accepts and the asynchronous one for everything else
DispatchSyncFirst(entry, h, v) == IF isGenerator(h, v) THEN entry ELSE AsyncOf(entry)

\* run(generator), runTail(generator): if (isAsyncGenerator(generator))
\* return runAsyncImpl(generator); return runSyncImpl(generator);
Dispatch(entry, h, v) == IF isAsyncGenerator(h, v) THEN AsyncOf(entry) ELSE entry

\* the generator functions driven, and the arguments they are called with
Fns == {"factorial", "fibonacci", "deepSum", "traverse", "factorialTail",
        "deepCounter", "sum", "factorialThunk", "plainSum", "failing", "badThunk",
        "sampler", "samplerThunk"}
AccsOf(fn) ==
    CASE fn \in {"factorialTail", "factorialThunk"} -> 1..MaxSeed
      [] fn = "sum" -> 0..MaxSeed
      [] OTHER -> {0}
Programs == UNION {{[fn |-> fn, n |-> n, acc |-> a] : n \in 0..MaxN, a \in AccsOf(fn)} : fn \in Fns}

Cfg(m, p) == [mode |-> m, root |-> RootClass(m), fn |-> p.fn, n |-> p.n, acc |-> p.acc]

\* The two invocations of a behaviour: a synchronous driver and its
\* asynchronous variant on the same program, or runTail on the deferred
\* and on the direct form of the accumulator factorial.
ParityPairs == {<<Cfg(m, p), Cfg(AsyncOf(m), p)>> : m \in SyncModes, p \in Programs}
ThunkPairs ==
    {<<Cfg(m, [fn |-> "factorialThunk", n |-> n, acc |-> a]),
       Cfg(m, [fn |-> "factorialTail", n |-> n, acc |-> a])>> :
         m \in {"runTail", "runTailAsync"}, n \in 0..MaxN, a \in 1..MaxSeed}
\* the largest first argument the test gives ackermann: ackermann(2, 2)
AckermannM == 2
\* two runs side by side, one on the nested recursion ackermann(m, n) and
\* one on the mutual recursion isEven(k) or isOdd(k)
NestedPairs ==
    {<<Cfg("run", [fn |-> "ackermann", n |-> k % (AckermannM + 1), acc |-> n]),
       Cfg("run", [fn |-> fn, n |-> k, acc |-> 0])>> :
         fn \in {"isEven", "isOdd"}, k \in 0..MaxN, n \in 0..MaxSeed}
Pairs == ParityPairs \cup ThunkPairs \cup NestedPairs

\* a driver and its asynchronous variant on a program that breaks the contract
MisuseFns == {"crossCall", "yieldTwice"}
MisusePairs ==
    {<<Cfg(m, [fn |-> fn, n |-> n, acc |-> 0]), Cfg(AsyncOf(m), [fn |-> fn, n |-> n, acc |-> 0])>> :
         m \in SyncModes, fn \in MisuseFns, n \in 0..MaxN}

\* two asynchronous invocations in flight together on unrelated programs
ConcurrentPairs ==
    {<<Cfg("runAsync", [fn |-> f1, n |-> n, acc |-> 0]), Cfg(m2.mode, [fn |-> m2.fn, n |-> n, acc |-> 1])>> :
         f1 \in {"fibonacci", "failing"},
         m2 \in {[mode |-> "runTailAsync", fn |-> "factorialThunk"],
                 [mode |-> "runTailAsync", fn |-> "sum"],
                 [mode |-> "runAsync", fn |-> "deepSum"]},
         n \in 0..MaxN}
\* run and runTail handed an object that is no generator: {}, an object
\* with only Symbol.iterator, an object with only Symbol.asyncIterator
ForeignRoots == {"Object", "Iterable", "AsyncIterable"}
ForeignRootPairs ==
    {<<[Cfg("run", [fn |-> "none", n |-> 0, acc |-> 0]) EXCEPT !.root = c],
       [Cfg("runTail", [fn |-> "none", n |-> 0, acc |-> 0]) EXCEPT !.root = c]>> :
         c \in ForeignRoots}
\* the generator functions whose every nested call is `return yield f(...)`,
\* and the programs of them (and of sampler, which hands out one plain
\* value) whose suspensions carry no callable
TailPosition == {"factorialTail", "deepCounter", "sum"}
TailPrograms ==
    {p \in Programs : p.fn \in TailPosition \/ (p.fn = "sampler" /\ SampleKind(p.n) # "Function")}
\* run and runTail side by side on the same program
CrossDriverPairs == {<<Cfg("run", p), Cfg("runTail", p)>> : p \in TailPrograms}
AllPairs == Pairs \cup MisusePairs \cup ConcurrentPairs \cup ForeignRootPairs \cup CrossDriverPairs

\* a saved frame, and slot i (counted from 0) of the frame array: a slot
\* never written is a hole of `new Array(1024)`
Frame(g) == [generator |-> g, isTailCall |-> FALSE]
NoFrame == [generator |-> Undefined, isTailCall |-> FALSE]
\* the slot read one position too high (stack[stackSize] before stackSize--)
SlotBeforeDecrement(st, i) == IF i + 2 <= Len(st) THEN st[i + 2] ELSE NoFrame
Slot(st, i) == IF i + 1 <= Len(st) THEN st[i + 1] ELSE NoFrame
\* stack.push(f) on the pre-sized array instead of stack[i] = f
WriteSlotPush(st, i, f) == Append(st, f)
\* stack[i] = f on an array that cannot grow: a write past its end is lost
WriteSlotFixed(st, i, f) == IF i + 1 <= Len(st) THEN [st EXCEPT ![i + 1] = f] ELSE st
\* stack[i] = f
WriteSlot(st, i, f) == IF i + 1 <= Len(st) THEN [st EXCEPT ![i + 1] = f] ELSE Append(st, f)

\* new Array(n): n holes
NewArray(n) == [i \in 1..n |-> NoFrame]

NoOutcome == [k |-> "none", v |-> Undefined]
\* the TypeError runTail throws for an invalid deferred result (README)
UsageError == V("error", 0 - 1)
\* the Error('Stack frame is undefined') of the README drivers
StackFrameError == V("error", 0 - 2)

Ev(op, g, v) == [op |-> op, g |-> g, v |-> v]
Logged(d, evs) == [log EXCEPT ![d] = @ \o evs]

\* genFunc(...args); stack = new Array(1024); stackSize = 0; ret = null
\* genFunc(args[0]): the rest of the arguments is dropped, so that acc
\* takes the default of the parameter list
CallFirstArg(m, a) ==
    Obj(RootClass(m), RootClass(m), a.genFunc, a.args[1],
        IF a.genFunc \in {"factorialTail", "factorialThunk"} THEN 1 ELSE 0, 0)

\* genFunc(...args): the root generator of an invocation
Call(m, a) == Obj(RootClass(m), RootClass(m), a.genFunc, a.args[1], a.args[2], 0)

\* The state in which the loop is entered: the root created from the
\* call's arguments (for a foreign root: an object of that class), the
\* variant chosen from the root, the frame array allocated, nothing resumed
\* yet.
InitFrom(pairs) ==
    \E pair \in pairs :
        /\ args = [d \in Drivers |-> [genFunc |-> pair[d].fn, args |-> <<pair[d].n, pair[d].acc>>]]
        /\ heap = [d \in Drivers |->
                     <<[Call(pair[d].mode, args[d]) EXCEPT !.cls = pair[d].root, !.mk = pair[d].root]>>]
        /\ mode = [d \in Drivers |-> Dispatch(Entry(pair[d].mode), heap[d], Ref(1))]
        /\ pc = [d \in Drivers |-> "loop"]
        /\ stack = [d \in Drivers |-> IF Entry(mode[d]) = "run" THEN NewArray(StackCapacity) ELSE <<>>]
        /\ stackSize = [d \in Drivers |-> 0]
        /\ current = [d \in Drivers |-> Ref(1)]
        /\ ret = [d \in Drivers |-> Null]
        /\ r = [d \in Drivers |-> NoOutcome]
        /\ result = [d \in Drivers |-> Undefined]
        /\ log = [d \in Drivers |-> <<>>]

Init == InitFrom(Pairs)
\* the same drivers, started also on the misuse programs and in concurrent pairs
InitAll == InitFrom(AllPairs)
\* Resumed with the pending input kept in one place for all invocations:
\* every driver resumes with the input the first invocation holds
ResumedSharedRet(d) == GenNext(heap[d], current[d], ret[1])
\* ------------------------------------------------ run (src/src/index.ts)
\* One action per branch of one iteration of the loop: r = current.next(ret)
\* and what the iteration does with r.
Resumed(d) == GenNext(heap[d], current[d], ret[d])
AtLoop(d, m) == mode[d] = m /\ pc[d] = "loop"

\* RunThrow with the exception caught and a default value returned
RunThrowSwallowed(d) ==
    /\ AtLoop(d, "run")
    /\ LET o == Resumed(d) IN
        /\ o.k = "throw"
        /\ heap' = [heap EXCEPT ![d] = o.h]
        /\ pc' = [pc EXCEPT ![d] = "returned"]
        /\ result' = [result EXCEPT ![d] = Null]
        /\ log' = Logged(d, <<Ev("resume", current[d], ret[d]), Ev("throw", current[d], o.v)>>)
        /\ UNCHANGED <<args, mode, stack, stackSize, current, ret, r>>
\* RunThrow handing the error to the parent instead of letting it leave
\* run: with frames saved, the top frame is popped and its generator is
\* resumed with the error as its input
RunThrowResumesParent(d) ==
    /\ AtLoop(d, "run")
    /\ LET o == Resumed(d)
           frame == Slot(stack[d], stackSize[d] - 1) IN
        /\ o.k = "throw"
        /\ heap' = [heap EXCEPT ![d] = o.h]
        /\ IF stackSize[d] = 0
           THEN /\ pc' = [pc EXCEPT ![d] = "threw"]
                /\ result' = [result EXCEPT ![d] = o.v]
                /\ UNCHANGED <<stackSize, current, ret>>
           ELSE /\ stackSize' = [stackSize EXCEPT ![d] = @ - 1]
                /\ current' = [current EXCEPT ![d] = frame.generator]
                /\ ret' = [ret EXCEPT ![d] = o.v]
                /\ UNCHANGED <<pc, result>>
        /\ log' = Logged(d, <<Ev("resume", current[d], ret[d]), Ev("throw", current[d], o.v)>>)
        /\ UNCHANGED <<args, mode, stack, r>>

\* current.next(ret) throws: the exception leaves run
RunThrow(d) ==
    /\ AtLoop(d, "run")
    /\ LET o == Resumed(d) IN
        /\ o.k = "throw"
        /\ heap' = [heap EXCEPT ![d] = o.h]
        /\ pc' = [pc EXCEPT ![d] = "threw"]
        /\ result' = [result EXCEPT ![d] = o.v]
        /\ log' = Logged(d, <<Ev("resume", current[d], ret[d]), Ev("throw", current[d], o.v)>>)
        /\ UNCHANGED <<args, mode, stack, stackSize, current, ret, r>>

\* RunReturn without the test `stackSize === 0`: the first generator to
\* finish ends the call
RunReturnAnyDepth(d) ==
    /\ AtLoop(d, "run")
    /\ LET o == Resumed(d) IN
        /\ o.k = "return"
        /\ heap' = [heap EXCEPT ![d] = o.h]
        /\ pc' = [pc EXCEPT ![d] = "returned"]
        /\ result' = [result EXCEPT ![d] = o.v]
        /\ log' = Logged(d, <<Ev("resume", current[d], ret[d]), Ev("return", current[d], o.v)>>)
        /\ UNCHANGED <<args, mode, stack, stackSize, current, ret, r>>

\* r.done with an empty stack: return r.value
RunReturn(d) ==
    /\ AtLoop(d, "run")
    /\ LET o == Resumed(d) IN
        /\ o.k = "return"
        /\ stackSize[d] = 0
        /\ heap' = [heap EXCEPT ![d] = o.h]
        /\ pc' = [pc EXCEPT ![d] = "returned"]
        /\ result' = [result EXCEPT ![d] = o.v]
        /\ log' = Logged(d, <<Ev("resume", current[d], ret[d]), Ev("return", current[d], o.v)>>)
        /\ UNCHANGED <<args, mode, stack, stackSize, current, ret, r>>

\* RunPop going back to the bottom frame, stack[0], instead of the top one
RunPopBottomFrame(d) ==
    /\ AtLoop(d, "run")
    /\ LET o == Resumed(d)
           frame == Slot(stack[d], 0) IN
        /\ o.k = "return"
        /\ stackSize[d] # 0
        /\ heap' = [heap EXCEPT ![d] = o.h]
        /\ stackSize' = [stackSize EXCEPT ![d] = @ - 1]
        /\ current' = [current EXCEPT ![d] = frame.generator]
        /\ ret' = [ret EXCEPT ![d] = o.v]
        /\ log' = Logged(d, <<Ev("resume", current[d], ret[d]), Ev("pop", current[d], o.v)>>)
        /\ UNCHANGED <<args, mode, pc, stack, r, result>>

\* RunPop reading stack[stackSize - 1] without `stackSize--`
RunPopNoDecrement(d) ==
    /\ AtLoop(d, "run")
    /\ LET o == Resumed(d)
           frame == Slot(stack[d], stackSize[d] - 1) IN
        /\ o.k = "return"
        /\ stackSize[d] # 0
        /\ heap' = [heap EXCEPT ![d] = o.h]
        /\ current' = [current EXCEPT ![d] = frame.generator]
        /\ ret' = [ret EXCEPT ![d] = o.v]
        /\ log' = Logged(d, <<Ev("resume", current[d], ret[d]), Ev("pop", current[d], o.v)>>)
        /\ UNCHANGED <<args, mode, pc, stack, stackSize, r, result>>

\* RunPop without `ret = r.value`
RunPopKeepsRet(d) ==
    /\ AtLoop(d, "run")
    /\ LET o == Resumed(d)
           frame == Slot(stack[d], stackSize[d] - 1) IN
        /\ o.k = "return"
        /\ stackSize[d] # 0
        /\ heap' = [heap EXCEPT ![d] = o.h]
        /\ stackSize' = [stackSize EXCEPT ![d] = @ - 1]
        /\ current' = [current EXCEPT ![d] = frame.generator]
        /\ log' = Logged(d, <<Ev("resume", current[d], ret[d]), Ev("pop", current[d], o.v)>>)
        /\ UNCHANGED <<args, mode, pc, stack, ret, r, result>>

\* r.done with saved frames: stackSize--; current = stack[stackSize].generator;
\* ret = r.value (reading .generator of a hole throws a TypeError)
RunPop(d) ==
    /\ AtLoop(d, "run")
    /\ LET o == Resumed(d)
           frame == Slot(stack[d], stackSize[d] - 1) IN
        /\ o.k = "return"
        /\ stackSize[d] # 0
        /\ heap' = [heap EXCEPT ![d] = o.h]
        /\ stackSize' = [stackSize EXCEPT ![d] = @ - 1]
        /\ IF frame = NoFrame
           THEN /\ pc' = [pc EXCEPT ![d] = "threw"]
                /\ result' = [result EXCEPT ![d] = TypeError]
                /\ UNCHANGED <<current, ret>>
           ELSE /\ current' = [current EXCEPT ![d] = frame.generator]
                /\ ret' = [ret EXCEPT ![d] = o.v]
                /\ UNCHANGED <<pc, result>>
        /\ log' = Logged(d, <<Ev("resume", current[d], ret[d]), Ev("pop", current[d], o.v)>>)
        /\ UNCHANGED <<args, mode, stack, r>>

\* RunPush saving the child instead of the generator that suspended:
\* stack[stackSize] = { generator: r.value }
RunPushSavesChild(d) ==
    /\ AtLoop(d, "run")
    /\ LET o == Resumed(d) IN
        /\ o.k = "yield"
        /\ isGenerator(o.h, o.v)
        /\ heap' = [heap EXCEPT ![d] = o.h]
        /\ stack' = [stack EXCEPT ![d] = WriteSlot(@, stackSize[d], Frame(o.v))]
        /\ stackSize' = [stackSize EXCEPT ![d] = @ + 1]
        /\ current' = [current EXCEPT ![d] = o.v]
        /\ ret' = [ret EXCEPT ![d] = Null]
        /\ log' = Logged(d, <<Ev("resume", current[d], ret[d]), Ev("push", current[d], o.v)>>)
        /\ UNCHANGED <<args, mode, pc, r, result>>

\* RunPush without `ret = null`: the child's first next() is given what the
\* parent was last resumed with
RunPushKeepsRet(d) ==
    /\ AtLoop(d, "run")
    /\ LET o == Resumed(d) IN
        /\ o.k = "yield"
        /\ isGenerator(o.h, o.v)
        /\ heap' = [heap EXCEPT ![d] = o.h]
        /\ stack' = [stack EXCEPT ![d] = WriteSlot(@, stackSize[d], Frame(current[d]))]
        /\ stackSize' = [stackSize EXCEPT ![d] = @ + 1]
        /\ current' = [current EXCEPT ![d] = o.v]
        /\ log' = Logged(d, <<Ev("resume", current[d], ret[d]), Ev("push", current[d], o.v)>>)
        /\ UNCHANGED <<args, mode, pc, ret, r, result>>

\* r.value is a generator: stack[stackSize] = {generator: current}; stackSize++;
\* current = r.value; ret = null
RunPush(d) ==
    /\ AtLoop(d, "run")
    /\ LET o == Resumed(d) IN
        /\ o.k = "yield"
        /\ isGenerator(o.h, o.v)
        /\ heap' = [heap EXCEPT ![d] = o.h]
        /\ stack' = [stack EXCEPT ![d] = WriteSlot(@, stackSize[d], Frame(current[d]))]
        /\ stackSize' = [stackSize EXCEPT ![d] = @ + 1]
        /\ current' = [current EXCEPT ![d] = o.v]
        /\ ret' = [ret EXCEPT ![d] = Null]
        /\ log' = Logged(d, <<Ev("resume", current[d], ret[d]), Ev("push", current[d], o.v)>>)
        /\ UNCHANGED <<args, mode, pc, r, result>>

\* RunPlain clearing the pending input as the push branch does: ret = null
RunPlainResets(d) ==
    /\ AtLoop(d, "run")
    /\ LET o == Resumed(d) IN
        /\ o.k = "yield"
        /\ ~isGenerator(o.h, o.v)
        /\ heap' = [heap EXCEPT ![d] = o.h]
        /\ ret' = [ret EXCEPT ![d] = Null]
        /\ log' = Logged(d, <<Ev("resume", current[d], ret[d]), Ev("plain", current[d], o.v)>>)
        /\ UNCHANGED <<args, mode, pc, stack, stackSize, current, r, result>>

\* r.value is anything else: ret = r.value
RunPlain(d) ==
    /\ AtLoop(d, "run")
    /\ LET o == Resumed(d) IN
        /\ o.k = "yield"
        /\ ~isGenerator(o.h, o.v)
        /\ heap' = [heap EXCEPT ![d] = o.h]
        /\ ret' = [ret EXCEPT ![d] = o.v]
        /\ log' = Logged(d, <<Ev("resume", current[d], ret[d]), Ev("plain", current[d], o.v)>>)
        /\ UNCHANGED <<args, mode, pc, stack, stackSize, current, r, result>>

\* -------------------------------------------- runTail (src/src/index.ts)
\* current.next(ret) throws: the exception leaves runTail
TailThrow(d) ==
    /\ AtLoop(d, "runTail")
    /\ LET o == Resumed(d) IN
        /\ o.k = "throw"
        /\ heap' = [heap EXCEPT ![d] = o.h]
        /\ pc' = [pc EXCEPT ![d] = "threw"]
        /\ result' = [result EXCEPT ![d] = o.v]
        /\ log' = Logged(d, <<Ev("resume", current[d], ret[d]), Ev("throw", current[d], o.v)>>)
        /\ UNCHANGED <<args, mode, stack, stackSize, current, ret, r>>
\* TailReturn going back to the generator that produced the finished one,
\* as run does: the result becomes the creator's input
TailReturnToParent(d) ==
    /\ AtLoop(d, "runTail")
    /\ LET o == Resumed(d)
           by == o.h[current[d].v].by IN
        /\ o.k = "return"
        /\ heap' = [heap EXCEPT ![d] = o.h]
        /\ IF by = 0
           THEN /\ pc' = [pc EXCEPT ![d] = "returned"]
                /\ result' = [result EXCEPT ![d] = o.v]
                /\ UNCHANGED <<current, ret>>
           ELSE /\ current' = [current EXCEPT ![d] = Ref(by)]
                /\ ret' = [ret EXCEPT ![d] = o.v]
                /\ UNCHANGED <<pc, result>>
        /\ log' = Logged(d, <<Ev("resume", current[d], ret[d]), Ev("return", current[d], o.v)>>)
        /\ UNCHANGED <<args, mode, stack, stackSize, r>>

\* r.done: return r.value
TailReturn(d) ==
    /\ AtLoop(d, "runTail")
    /\ LET o == Resumed(d) IN
        /\ o.k = "return"
        /\ heap' = [heap EXCEPT ![d] = o.h]
        /\ pc' = [pc EXCEPT ![d] = "returned"]
        /\ result' = [result EXCEPT ![d] = o.v]
        /\ log' = Logged(d, <<Ev("resume", current[d], ret[d]), Ev("return", current[d], o.v)>>)
        /\ UNCHANGED <<args, mode, stack, stackSize, current, ret, r>>

\* TailCall with the function itself made current (`current = value`)
TailCallNotInvoked(d) ==
    /\ AtLoop(d, "runTail")
    /\ LET o == Resumed(d) IN
        /\ o.k = "yield"
        /\ TypeOf(o.h, o.v) = "function"
        /\ heap' = [heap EXCEPT ![d] = o.h]
        /\ current' = [current EXCEPT ![d] = o.v]
        /\ ret' = [ret EXCEPT ![d] = Null]
        /\ log' = Logged(d, <<Ev("resume", current[d], ret[d]), Ev("call", current[d], o.v),
                               Ev("switch", current[d], o.v)>>)
        /\ UNCHANGED <<args, mode, pc, stack, stackSize, r, result>>
\* TailCall calling the function twice, once to test what it returns and
\* once to install it: if (value()) current = value()
TailCallTwice(d) ==
    /\ AtLoop(d, "runTail")
    /\ LET o == Resumed(d)
           t == CallFn(o.h, o.v)
           c == CallFn(t.h, o.v) IN
        /\ o.k = "yield"
        /\ TypeOf(o.h, o.v) = "function"
        /\ heap' = [heap EXCEPT ![d] = c.h]
        /\ current' = [current EXCEPT ![d] = c.v]
        /\ ret' = [ret EXCEPT ![d] = Null]
        /\ log' = Logged(d, <<Ev("resume", current[d], ret[d]), Ev("call", current[d], o.v),
                               Ev("switch", current[d], c.v)>>)
        /\ UNCHANGED <<args, mode, pc, stack, stackSize, r, result>>

\* TailCall keeping the current generator when the function has made no
\* generator, and handing the function's result back as a plain value
TailCallLenient(d) ==
    /\ AtLoop(d, "runTail")
    /\ LET o == Resumed(d)
           c == CallFn(o.h, o.v) IN
        /\ o.k = "yield"
        /\ TypeOf(o.h, o.v) = "function"
        /\ heap' = [heap EXCEPT ![d] = c.h]
        /\ current' = [current EXCEPT ![d] = IF HasIterator(c.h, c.v) THEN c.v ELSE @]
        /\ ret' = [ret EXCEPT ![d] = IF HasIterator(c.h, c.v) THEN Null ELSE c.v]
        /\ log' = Logged(d, <<Ev("resume", current[d], ret[d]), Ev("call", current[d], o.v),
                               Ev("switch", current[d], c.v)>>)
        /\ UNCHANGED <<args, mode, pc, stack, stackSize, r, result>>

\* typeof value === 'function': current = value(); ret = null
TailCall(d) ==
    /\ AtLoop(d, "runTail")
    /\ LET o == Resumed(d)
           c == CallFn(o.h, o.v) IN
        /\ o.k = "yield"
        /\ TypeOf(o.h, o.v) = "function"
        /\ heap' = [heap EXCEPT ![d] = c.h]
        /\ current' = [current EXCEPT ![d] = c.v]
        /\ ret' = [ret EXCEPT ![d] = Null]
        /\ log' = Logged(d, <<Ev("resume", current[d], ret[d]), Ev("call", current[d], o.v),
                               Ev("switch", current[d], c.v)>>)
        /\ UNCHANGED <<args, mode, pc, stack, stackSize, r, result>>

\* TailSwitch saving the superseded generator as run does
TailSwitchSavesFrame(d) ==
    /\ AtLoop(d, "runTail")
    /\ LET o == Resumed(d) IN
        /\ o.k = "yield"
        /\ TypeOf(o.h, o.v) # "function"
        /\ isGenerator(o.h, o.v)
        /\ heap' = [heap EXCEPT ![d] = o.h]
        /\ stack' = [stack EXCEPT ![d] = WriteSlot(@, stackSize[d], Frame(current[d]))]
        /\ stackSize' = [stackSize EXCEPT ![d] = @ + 1]
        /\ current' = [current EXCEPT ![d] = o.v]
        /\ ret' = [ret EXCEPT ![d] = Null]
        /\ log' = Logged(d, <<Ev("resume", current[d], ret[d]), Ev("switch", current[d], o.v)>>)
        /\ UNCHANGED <<args, mode, pc, r, result>>

\* isGenerator(value): current = value; ret = null
TailSwitch(d) ==
    /\ AtLoop(d, "runTail")
    /\ LET o == Resumed(d) IN
        /\ o.k = "yield"
        /\ TypeOf(o.h, o.v) # "function"
        /\ isGenerator(o.h, o.v)
        /\ heap' = [heap EXCEPT ![d] = o.h]
        /\ current' = [current EXCEPT ![d] = o.v]
        /\ ret' = [ret EXCEPT ![d] = Null]
        /\ log' = Logged(d, <<Ev("resume", current[d], ret[d]), Ev("switch", current[d], o.v)>>)
        /\ UNCHANGED <<args, mode, pc, stack, stackSize, r, result>>
\* TailPlain with the test of typeof value === 'function' left to a later
\* branch: whatever is not a generator, a function included, is handed back
TailPlainBeforeCall(d) ==
    /\ AtLoop(d, "runTail")
    /\ LET o == Resumed(d) IN
        /\ o.k = "yield"
        /\ ~isGenerator(o.h, o.v)
        /\ heap' = [heap EXCEPT ![d] = o.h]
        /\ ret' = [ret EXCEPT ![d] = o.v]
        /\ log' = Logged(d, <<Ev("resume", current[d], ret[d]), Ev("plain", current[d], o.v)>>)
        /\ UNCHANGED <<args, mode, pc, stack, stackSize, current, r, result>>

\* anything else: ret = value
TailPlain(d) ==
    /\ AtLoop(d, "runTail")
    /\ LET o == Resumed(d) IN
        /\ o.k = "yield"
        /\ TypeOf(o.h, o.v) # "function"
        /\ ~isGenerator(o.h, o.v)
        /\ heap' = [heap EXCEPT ![d] = o.h]
        /\ ret' = [ret EXCEPT ![d] = o.v]
        /\ log' = Logged(d, <<Ev("resume", current[d], ret[d]), Ev("plain", current[d], o.v)>>)
        /\ UNCHANGED <<args, mode, pc, stack, stackSize, current, r, result>>

\* AsyncNext not waiting for the outcome: the loop goes on to the next
\* current.next(ret) while the previous one is still in flight
AsyncNextNoAwait(d) ==
    /\ mode[d] \in AsyncModes
    /\ pc[d] = "loop"
    /\ log' = Logged(d, <<Ev("resume", current[d], ret[d])>>)
    /\ UNCHANGED <<heap, args, mode, pc, stack, stackSize, current, ret, r, result>>

\* --------------------------------- asynchronous drivers (src/README.md)
\* `await current.next(ret)`: the call is issued and the driver waits
AsyncNext(d) ==
    /\ mode[d] \in AsyncModes
    /\ pc[d] = "loop"
    /\ pc' = [pc EXCEPT ![d] = "await"]
    /\ log' = Logged(d, <<Ev("resume", current[d], ret[d])>>)
    /\ UNCHANGED <<heap, args, mode, stack, stackSize, current, ret, r, result>>

\* the awaited promise settles with the generator's outcome
AsyncSettle(d) ==
    /\ mode[d] \in AsyncModes
    /\ pc[d] = "await"
    /\ LET o == Resumed(d) IN
        /\ heap' = [heap EXCEPT ![d] = o.h]
        /\ r' = [r EXCEPT ![d] = [k |-> o.k, v |-> o.v]]
    /\ pc' = [pc EXCEPT ![d] = "dispatch"]
    /\ UNCHANGED <<args, mode, stack, stackSize, current, ret, result, log>>

AtDispatch(d, m) == mode[d] = m /\ pc[d] = "dispatch"
\* AsyncReject in a driver that catches the rejection of the awaited
\* promise and drops it: its own promise neither settles nor does the loop
\* go on.
AsyncRejectSwallowed(d) ==
    /\ mode[d] \in AsyncModes
    /\ pc[d] = "dispatch"
    /\ r[d].k = "throw"
    /\ r' = [r EXCEPT ![d] = NoOutcome]
    /\ UNCHANGED <<heap, args, mode, pc, stack, stackSize, current, ret, result, log>>

\* AsyncReject in a driver that is not an async function: the failure
\* escapes the call as an exception instead of rejecting the promise
AsyncRejectThrows(d) ==
    /\ mode[d] \in AsyncModes
    /\ pc[d] = "dispatch"
    /\ r[d].k = "throw"
    /\ pc' = [pc EXCEPT ![d] = "threw"]
    /\ result' = [result EXCEPT ![d] = r[d].v]
    /\ r' = [r EXCEPT ![d] = NoOutcome]
    /\ log' = Logged(d, <<Ev("throw", current[d], r[d].v)>>)
    /\ UNCHANGED <<heap, args, mode, stack, stackSize, current, ret>>

\* the awaited promise was rejected: the driver's promise rejects with it
AsyncReject(d) ==
    /\ mode[d] \in AsyncModes
    /\ pc[d] = "dispatch"
    /\ r[d].k = "throw"
    /\ pc' = [pc EXCEPT ![d] = "rejected"]
    /\ result' = [result EXCEPT ![d] = r[d].v]
    /\ r' = [r EXCEPT ![d] = NoOutcome]
    /\ log' = Logged(d, <<Ev("throw", current[d], r[d].v)>>)
    /\ UNCHANGED <<heap, args, mode, stack, stackSize, current, ret>>

\* runAsyncImpl, r.done with an empty stack
RunAsyncReturn(d) ==
    /\ AtDispatch(d, "runAsync")
    /\ r[d].k = "return"
    /\ stackSize[d] = 0
    /\ pc' = [pc EXCEPT ![d] = "resolved"]
    /\ result' = [result EXCEPT ![d] = r[d].v]
    /\ r' = [r EXCEPT ![d] = NoOutcome]
    /\ log' = Logged(d, <<Ev("return", current[d], r[d].v)>>)
    /\ UNCHANGED <<heap, args, mode, stack, stackSize, current, ret>>

\* runAsyncImpl, r.done with saved frames: stackSize--; frame = stack[stackSize];
\* if (!frame) throw new Error('Stack frame is undefined')
RunAsyncPop(d) ==
    /\ AtDispatch(d, "runAsync")
    /\ r[d].k = "return"
    /\ stackSize[d] # 0
    /\ LET frame == Slot(stack[d], stackSize[d] - 1) IN
        /\ stackSize' = [stackSize EXCEPT ![d] = @ - 1]
        /\ IF frame = NoFrame
           THEN /\ pc' = [pc EXCEPT ![d] = "rejected"]
                /\ result' = [result EXCEPT ![d] = StackFrameError]
                /\ UNCHANGED <<current, ret>>
           ELSE /\ current' = [current EXCEPT ![d] = frame.generator]
                /\ ret' = [ret EXCEPT ![d] = r[d].v]
                /\ pc' = [pc EXCEPT ![d] = "loop"]
                /\ UNCHANGED result
    /\ r' = [r EXCEPT ![d] = NoOutcome]
    /\ log' = Logged(d, <<Ev("pop", current[d], r[d].v)>>)
    /\ UNCHANGED <<heap, args, mode, stack>>

\* runAsyncImpl, isAsyncGenerator(r.value): push and switch
RunAsyncPush(d) ==
    /\ AtDispatch(d, "runAsync")
    /\ r[d].k = "yield"
    /\ isAsyncGenerator(heap[d], r[d].v)
    /\ stack' = [stack EXCEPT ![d] = WriteSlot(@, stackSize[d], Frame(current[d]))]
    /\ stackSize' = [stackSize EXCEPT ![d] = @ + 1]
    /\ current' = [current EXCEPT ![d] = r[d].v]
    /\ ret' = [ret EXCEPT ![d] = Null]
    /\ pc' = [pc EXCEPT ![d] = "loop"]
    /\ r' = [r EXCEPT ![d] = NoOutcome]
    /\ log' = Logged(d, <<Ev("push", current[d], r[d].v)>>)
    /\ UNCHANGED <<heap, args, mode, result>>

\* runAsyncImpl, anything else: ret = r.value
RunAsyncPlain(d) ==
    /\ AtDispatch(d, "runAsync")
    /\ r[d].k = "yield"
    /\ ~isAsyncGenerator(heap[d], r[d].v)
    /\ ret' = [ret EXCEPT ![d] = r[d].v]
    /\ pc' = [pc EXCEPT ![d] = "loop"]
    /\ r' = [r EXCEPT ![d] = NoOutcome]
    /\ log' = Logged(d, <<Ev("plain", current[d], r[d].v)>>)
    /\ UNCHANGED <<heap, args, mode, stack, stackSize, current, result>>

\* runTailAsyncImpl, r.done: return r.value
TailAsyncReturn(d) ==
    /\ AtDispatch(d, "runTailAsync")
    /\ r[d].k = "return"
    /\ pc' = [pc EXCEPT ![d] = "resolved"]
    /\ result' = [result EXCEPT ![d] = r[d].v]
    /\ r' = [r EXCEPT ![d] = NoOutcome]
    /\ log' = Logged(d, <<Ev("return", current[d], r[d].v)>>)
    /\ UNCHANGED <<heap, args, mode, stack, stackSize, current, ret>>

\* runTailAsyncImpl, typeof value === 'function': `await value()` is issued
TailAsyncCall(d) ==
    /\ AtDispatch(d, "runTailAsync")
    /\ r[d].k = "yield"
    /\ TypeOf(heap[d], r[d].v) = "function"
    /\ LET c == CallFn(heap[d], r[d].v) IN
        /\ heap' = [heap EXCEPT ![d] = c.h]
        /\ r' = [r EXCEPT ![d] = [k |-> "called", v |-> c.v]]
    /\ pc' = [pc EXCEPT ![d] = "awaitCall"]
    /\ log' = Logged(d, <<Ev("call", current[d], r[d].v)>>)
    /\ UNCHANGED <<args, mode, stack, stackSize, current, ret, result>>

\* gen && typeof gen.next === 'function'
HasNext(h, v) == IsRef(v) /\ h[v.v].cls \in {"Generator", "AsyncGenerator"}

\* runTailAsyncImpl, gen has arrived and is valid: current = gen; ret = null
TailAsyncCalled(d) ==
    /\ mode[d] = "runTailAsync"
    /\ pc[d] = "awaitCall"
    /\ HasNext(heap[d], r[d].v)
    /\ current' = [current EXCEPT ![d] = r[d].v]
    /\ ret' = [ret EXCEPT ![d] = Null]
    /\ pc' = [pc EXCEPT ![d] = "loop"]
    /\ r' = [r EXCEPT ![d] = NoOutcome]
    /\ log' = Logged(d, <<Ev("switch", current[d], r[d].v)>>)
    /\ UNCHANGED <<heap, args, mode, stack, stackSize, result>>

\* runTailAsyncImpl, gen has arrived and is invalid: throw new TypeError(...)
TailAsyncInvalid(d) ==
    /\ mode[d] = "runTailAsync"
    /\ pc[d] = "awaitCall"
    /\ ~HasNext(heap[d], r[d].v)
    /\ pc' = [pc EXCEPT ![d] = "rejected"]
    /\ result' = [result EXCEPT ![d] = UsageError]
    /\ r' = [r EXCEPT ![d] = NoOutcome]
    /\ log' = Logged(d, <<Ev("throw", current[d], UsageError)>>)
    /\ UNCHANGED <<heap, args, mode, stack, stackSize, current, ret>>

\* runTailAsyncImpl, isAsyncGenerator(value): current = value; ret = null
TailAsyncSwitch(d) ==
    /\ AtDispatch(d, "runTailAsync")
    /\ r[d].k = "yield"
    /\ TypeOf(heap[d], r[d].v) # "function"
    /\ isAsyncGenerator(heap[d], r[d].v)
    /\ current' = [current EXCEPT ![d] = r[d].v]
    /\ ret' = [ret EXCEPT ![d] = Null]
    /\ pc' = [pc EXCEPT ![d] = "loop"]
    /\ r' = [r EXCEPT ![d] = NoOutcome]
    /\ log' = Logged(d, <<Ev("switch", current[d], r[d].v)>>)
    /\ UNCHANGED <<heap, args, mode, stack, stackSize, result>>

\* runTailAsyncImpl, anything else: ret = value
TailAsyncPlain(d) ==
    /\ AtDispatch(d, "runTailAsync")
    /\ r[d].k = "yield"
    /\ TypeOf(heap[d], r[d].v) # "function"
    /\ ~isAsyncGenerator(heap[d], r[d].v)
    /\ ret' = [ret EXCEPT ![d] = r[d].v]
    /\ pc' = [pc EXCEPT ![d] = "loop"]
    /\ r' = [r EXCEPT ![d] = NoOutcome]
    /\ log' = Logged(d, <<Ev("plain", current[d], r[d].v)>>)
    /\ UNCHANGED <<heap, args, mode, stack, stackSize, current, result>>

Next ==
    \/ \E d \in Drivers : RunThrow(d)
    \/ \E d \in Drivers : RunReturn(d)
    \/ \E d \in Drivers : RunPop(d)
    \/ \E d \in Drivers : RunPush(d)
    \/ \E d \in Drivers : RunPlain(d)
    \/ \E d \in Drivers : TailThrow(d)
    \/ \E d \in Drivers : TailReturn(d)
    \/ \E d \in Drivers : TailCall(d)
    \/ \E d \in Drivers : TailSwitch(d)
    \/ \E d \in Drivers : TailPlain(d)
    \/ \E d \in Drivers : AsyncNext(d)
    \/ \E d \in Drivers : AsyncSettle(d)
    \/ \E d \in Drivers : AsyncReject(d)
    \/ \E d \in Drivers : RunAsyncReturn(d)
    \/ \E d \in Drivers : RunAsyncPop(d)
    \/ \E d \in Drivers : RunAsyncPush(d)
    \/ \E d \in Drivers : RunAsyncPlain(d)
    \/ \E d \in Drivers : TailAsyncReturn(d)
    \/ \E d \in Drivers : TailAsyncCall(d)
    \/ \E d \in Drivers : TailAsyncCalled(d)
    \/ \E d \in Drivers : TailAsyncInvalid(d)
    \/ \E d \in Drivers : TailAsyncSwitch(d)
    \/ \E d \in Drivers : TailAsyncPlain(d)

Spec == Init /\ [][Next]_vars
SpecAll == InitAll /\ [][Next]_vars
\* The loops run on: every iteration that can be taken is taken, and every
\* awaited outcome arrives.
FairSpec == Spec /\ WF_vars(Next)

\* ========================================================= properties
Root(d) == heap[d][1]
Returned(d) == pc[d] \in {"returned", "resolved"}
Failed(d) == pc[d] \in {"threw", "rejected"}
Ended(d) == Returned(d) \/ Failed(d)

\* ---- the computations written as ordinary recursion
RECURSIVE factorialRecursive(_)
factorialRecursive(n) == IF n <= 1 THEN 1 ELSE n * factorialRecursive(n - 1)

RECURSIVE fibRecursive(_)
fibRecursive(n) == IF n <= 2 THEN 1 ELSE fibRecursive(n - 1) + fibRecursive(n - 2)

RECURSIVE deepSumRecursive(_)
deepSumRecursive(n) == IF n <= 0 THEN 0 ELSE n + deepSumRecursive(n - 1)

RECURSIVE treeSumRecursive(_)
treeSumRecursive(i) ==
    IF i = 0 THEN 0 ELSE i + treeSumRecursive(Left(i)) + treeSumRecursive(Right(i))

\* ackermann, isEven and isOdd as ordinary recursive functions
RECURSIVE ackermannRecursive(_, _)
ackermannRecursive(m, n) ==
    IF m = 0 THEN n + 1
    ELSE IF n = 0 THEN ackermannRecursive(m - 1, 1)
    ELSE ackermannRecursive(m - 1, ackermannRecursive(m, n - 1))

RECURSIVE isEvenRecursive(_)
RECURSIVE isOddRecursive(_)
isEvenRecursive(n) == IF n = 0 THEN TRUE ELSE isOddRecursive(n - 1)
isOddRecursive(n) == IF n = 0 THEN FALSE ELSE isEvenRecursive(n - 1)

RECURSIVE factorialTailRecursive(_, _)
factorialTailRecursive(n, acc) ==
    IF n <= 1 THEN acc ELSE factorialTailRecursive(n - 1, acc * n)

\* the generator functions that have an ordinary recursive form, and its value
Recursive == {"factorial", "fibonacci", "deepSum", "traverse", "factorialTail",
              "deepCounter", "sum", "plainSum"}
NaiveRecursive(p) ==
    CASE p.fn = "factorial" -> factorialRecursive(p.n)
      [] p.fn = "fibonacci" -> fibRecursive(p.n)
      [] p.fn = "deepSum" -> deepSumRecursive(p.n)
      [] p.fn = "traverse" -> treeSumRecursive(p.n)
      [] p.fn = "factorialTail" -> factorialTailRecursive(p.n, p.acc)
      [] p.fn = "deepCounter" -> 0
      [] p.fn = "sum" -> p.acc + deepSumRecursive(p.n)
      [] p.fn = "plainSum" -> deepSumRecursive(p.n)

\* C1: run on the generator form of a recursion never fails and returns
\* exactly the value of the ordinary recursion, for every n up to MaxN.
C1_RunEqualsNaiveRecursion ==
    \A d \in Drivers :
        (mode[d] = "run" /\ Root(d).fn \in Recursive) =>
            /\ ~Failed(d)
            /\ Returned(d) => result[d] = Num(NaiveRecursive(Root(d)))

C1_Witness ==
    \E d \in Drivers :
        /\ mode[d] = "run" /\ pc[d] = "returned"
        /\ Root(d).fn = "fibonacci" /\ Root(d).n >= 4
        /\ result[d] = Num(fibRecursive(Root(d).n))

\* ---- the iterative references of the accumulator-style computations
\* acc = seed; for (i = 1; i <= n; i++) acc = acc * i
RECURSIVE factorialLoop(_, _, _)
factorialLoop(i, n, acc) == IF i > n THEN acc ELSE factorialLoop(i + 1, n, acc * i)

\* acc = seed; for (i = 1; i <= n; i++) acc = acc + i
RECURSIVE sumLoop(_, _, _)
sumLoop(i, n, acc) == IF i > n THEN acc ELSE sumLoop(i + 1, n, acc + i)

Accumulators == {"factorialTail", "sum", "deepCounter"}
IterativeReference(p) ==
    CASE p.fn = "factorialTail" -> factorialLoop(1, p.n, p.acc)
      [] p.fn = "sum" -> sumLoop(1, p.n, p.acc)
      [] p.fn = "deepCounter" -> 0

\* C2: runTail on a strictly tail-recursive accumulator computation never
\* fails and returns exactly the value of the iterative reference, for
\* n = 0, n = 1 and every larger n up to MaxN.
C2_RunTailEqualsIterative ==
    \A d \in Drivers :
        (mode[d] = "runTail" /\ Root(d).fn \in Accumulators) =>
            /\ ~Failed(d)
            /\ Returned(d) => result[d] = Num(IterativeReference(Root(d)))

C2_Witness ==
    \E d \in Drivers :
        /\ mode[d] = "runTail" /\ pc[d] = "returned"
        /\ Root(d).fn = "factorialTail" /\ Root(d).n >= 4 /\ Root(d).acc = 2
        /\ result[d] = Num(2 * factorialRecursive(Root(d).n))

\* ---- failures
\* the generators of invocation d that a throw has closed
Thrown(d) == {g \in 1..Len(heap[d]) : heap[d][g].st = "failed"}

\* C3: once a resumption of any generator has thrown, the invocation does
\* not return: it has failed with exactly that error (or, in the
\* asynchronous drivers, the rejection has arrived and is about to be
\* passed on), however many frames are saved.
C3_FailurePropagates ==
    \A d \in Drivers : \A g \in Thrown(d) :
        /\ ~Returned(d)
        /\ \/ Failed(d) /\ result[d] = Err(g)
           \/ pc[d] = "dispatch" /\ r[d] = [k |-> "throw", v |-> Err(g)]

C3_Witness ==
    \E d \in Drivers :
        /\ mode[d] = "run" /\ pc[d] = "threw"
        /\ stackSize[d] >= 2
        /\ Thrown(d) # {}
        /\ \A g \in Thrown(d) : result[d] = Err(g)

\* ---- the call tree
\* the generators that generator p created (by a call or through an arrow
\* function), in creation order
Children(d, p) ==
    {c \in 1..Len(heap[d]) : heap[d][c].by = p /\ heap[d][c].cls # "Function"}

\* the chain of creators of generator g, root first
RECURSIVE Ancestors(_, _)
Ancestors(h, g) == IF h[g].by = 0 THEN <<>> ELSE Append(Ancestors(h, h[g].by), h[g].by)

Program(d, g) == [fn |-> heap[d][g].fn, n |-> heap[d][g].n, acc |-> heap[d][g].acc]

\* the positions of the log of d that hold an event op of generator g
At(d, op, g) == {i \in 1..Len(log[d]) : log[d][i].op = op /\ log[d][i].g = Ref(g)}
Min(S) == CHOOSE x \in S : \A y \in S : x <= y
Max(S) == CHOOSE x \in S : \A y \in S : x >= y
\* the completion of generator g, as the driver saw it
Completions(d, g) == At(d, "pop", g) \cup At(d, "return", g)

TwoBranch == {"fibonacci", "traverse"}
Combined(p, a, b) == IF p.fn = "traverse" THEN p.n + a + b ELSE a + b

\* C4: under run, a second child is resumed only after the first child has
\* completed and its parent has been resumed with the first child's
\* result; and a two-branch parent completes with the combination of the
\* values its two children have when computed on their own, first child
\* first.
C4_SiblingsInOrder ==
    \A d \in Drivers : mode[d] = "run" =>
        \A c2 \in 1..Len(heap[d]) : \A c1 \in Children(d, heap[d][c2].by) :
            /\ (c1 < c2 /\ At(d, "resume", c2) # {}) =>
                  /\ At(d, "pop", c1) # {}
                  /\ LET i == Min(At(d, "pop", c1)) IN
                        /\ i + 1 < Min(At(d, "resume", c2))
                        /\ log[d][i + 1] = Ev("resume", Ref(heap[d][c2].by), log[d][i].v)
            /\ (c1 < c2 /\ heap[d][heap[d][c2].by].fn \in TwoBranch
                  /\ Completions(d, heap[d][c2].by) # {}) =>
                  LET p == heap[d][c2].by IN
                    log[d][Min(Completions(d, p))].v =
                        Num(Combined(Program(d, p), NaiveRecursive(Program(d, c1)),
                                     NaiveRecursive(Program(d, c2))))

C4_Witness ==
    \E d \in Drivers :
        /\ mode[d] = "run" /\ pc[d] = "returned"
        /\ Root(d).fn = "traverse" /\ Root(d).n = 1
        /\ Children(d, 1) = {2, Max(Children(d, 1))}
        /\ At(d, "pop", 2) # {}
        /\ Min(At(d, "pop", 2)) < Min(At(d, "resume", Max(Children(d, 1))))
        /\ result[d] = Num(1 + treeSumRecursive(2) + treeSumRecursive(3))

RunModes == {"run", "runAsync"}
TailModes == {"runTail", "runTailAsync"}

\* the generators saved in stack[0..stackSize-1], bottom first
Saved(d) == [i \in 1..stackSize[d] |-> Slot(stack[d], i - 1).generator]

\* C5: in every state of run, the saved frames read bottom to top are the
\* chain of ancestors of the generator being resumed, root first; the top
\* frame is its direct parent.
C5_StackIsAncestorChain ==
    \A d \in Drivers : mode[d] \in RunModes =>
        /\ IsRef(current[d])
        /\ Saved(d) = [i \in 1..Len(Ancestors(heap[d], current[d].v)) |->
                          Ref(Ancestors(heap[d], current[d].v)[i])]
        /\ stackSize[d] > 0 =>
              Slot(stack[d], stackSize[d] - 1).generator = Ref(heap[d][current[d].v].by)

C5_Witness ==
    \E d \in Drivers :
        /\ mode[d] = "run" /\ pc[d] = "loop"
        /\ stackSize[d] >= 3
        /\ Slot(stack[d], stackSize[d]) # NoFrame
        /\ Saved(d)[1] = Ref(1)
        /\ Ancestors(heap[d], current[d].v)[stackSize[d]] = heap[d][current[d].v].by

\* ---- the depth of the ordinary recursion: the programs a call calls
Callees(p) ==
    CASE p.fn \in {"factorial", "factorialTail"} ->
            IF p.n <= 1 THEN {} ELSE {[p EXCEPT !.n = p.n - 1, !.acc = 0]}
      [] p.fn = "fibonacci" ->
            IF p.n <= 2 THEN {} ELSE {[p EXCEPT !.n = p.n - 1], [p EXCEPT !.n = p.n - 2]}
      [] p.fn = "traverse" ->
            IF p.n = 0 THEN {} ELSE {[p EXCEPT !.n = Left(p.n)], [p EXCEPT !.n = Right(p.n)]}
      [] p.fn \in {"deepSum", "deepCounter", "sum", "plainSum", "failing"} ->
            IF p.n <= 0 THEN {} ELSE {[p EXCEPT !.n = p.n - 1, !.acc = 0]}
      [] p.fn \in {"isEven", "isOdd"} ->
            IF p.n = 0 THEN {}
            ELSE {[p EXCEPT !.fn = IF p.fn = "isEven" THEN "isOdd" ELSE "isEven", !.n = p.n - 1]}
      [] p.fn = "ackermann" ->
            IF p.n = 0 THEN {}
            ELSE IF p.acc = 0 THEN {[p EXCEPT !.n = p.n - 1, !.acc = 1]}
            ELSE {[p EXCEPT !.acc = p.acc - 1],
                  [p EXCEPT !.n = p.n - 1, !.acc = ackermannRecursive(p.n, p.acc - 1)]}
      [] OTHER -> {}

RECURSIVE RecursionDepth(_)
RecursionDepth(p) ==
    IF Callees(p) = {} THEN 0 ELSE 1 + Max({RecursionDepth(q) : q \in Callees(p)})

\* C6: at every step of run, stackSize is the nesting depth of the current
\* generator below the root, and never more than the recursion depth of
\* the ordinary recursion (for the linear deepSum(n): at most n).
C6_StackSizeIsDepth ==
    \A d \in Drivers : mode[d] = "run" =>
        /\ stackSize[d] = Len(Ancestors(heap[d], current[d].v))
        /\ stackSize[d] <= RecursionDepth(Program(d, 1))
        /\ Root(d).fn = "deepSum" => stackSize[d] <= Root(d).n

C6_Witness ==
    \E d \in Drivers :
        /\ mode[d] = "run" /\ pc[d] = "loop"
        /\ Root(d).fn = "deepSum" /\ Root(d).n >= 4
        /\ stackSize[d] = Root(d).n

\* the events in which generator g handed the driver a nested generator or
\* an arrow function
Superseded(d, i) ==
    /\ log[d][i].op # "resume"
    /\ \/ TypeOf(heap[d], log[d][i].v) = "function"
       \/ isGenerator(heap[d], log[d][i].v)
       \/ isAsyncGenerator(heap[d], log[d][i].v)

\* C7: runTail saves no frame, holds one generator reference, and never
\* resumes again a generator that has handed it a nested generator or an
\* arrow function.
C7_TailKeepsNoFrames ==
    \A d \in Drivers : mode[d] \in TailModes =>
        /\ stackSize[d] = 0
        /\ stack[d] = <<>>
        /\ \A i \in 1..Len(log[d]) : Superseded(d, i) =>
              \A j \in (i + 1)..Len(log[d]) :
                  ~(log[d][j].op = "resume" /\ log[d][j].g = log[d][i].g)

C7_Witness ==
    \E d \in Drivers :
        /\ mode[d] = "runTail" /\ pc[d] = "returned"
        /\ Root(d).fn = "deepCounter" /\ Root(d).n >= 4
        /\ Cardinality({i \in 1..Len(log[d]) : log[d][i].op = "switch"}) = Root(d).n
        /\ stack[d] = <<>>

\* the behaviours that run the deferred and the direct accumulator factorial
IsThunkPair ==
    /\ Root(1).fn = "factorialThunk" /\ Root(2).fn = "factorialTail"
    /\ mode[1] = mode[2] /\ mode[1] \in TailModes

\* C8: runTail on the computation that suspends with `() => next` returns
\* what runTail returns on the computation that suspends with `next`
\* itself; neither fails.
C8_DeferredEqualsDirect ==
    IsThunkPair =>
        /\ ~Failed(1) /\ ~Failed(2)
        /\ (Returned(1) /\ Returned(2)) => result[1] = result[2]

C8_Witness ==
    /\ IsThunkPair /\ mode[1] = "runTail"
    /\ Root(1).n >= 4 /\ Root(1).acc = 2
    /\ Returned(1) /\ Returned(2)
    /\ Cardinality({i \in 1..Len(log[1]) : log[1][i].op = "call"}) = Root(1).n - 1
    /\ result[1] = Num(2 * factorialRecursive(Root(1).n))

IsPrefix(a, b) == Len(a) <= Len(b) /\ SubSeq(b, 1, Len(a)) = a

\* the behaviours that hand run a generator and, beside it, the async
\* generator of the same program
IsRunParityPair ==
    /\ Entry(mode[1]) = "run" /\ Root(1).cls = "Generator"
    /\ Entry(mode[2]) = "run" /\ Root(2).cls = "AsyncGenerator"

\* C9: the asynchronous run performs the same sequence of resume, push and
\* pop steps as run on the mirrored synchronous computation, and its
\* promise settles as run ends: resolved with the value run returns,
\* rejected with the error run throws.
C9_AsyncParity ==
    IsRunParityPair =>
        /\ IsPrefix(log[1], log[2]) \/ IsPrefix(log[2], log[1])
        /\ (Ended(1) /\ Ended(2)) =>
              /\ log[1] = log[2]
              /\ result[1] = result[2]
              /\ Returned(1) <=> Returned(2)

C9_Witness ==
    /\ IsRunParityPair
    /\ Root(1).fn = "fibonacci" /\ Root(1).n >= 4
    /\ pc[1] = "returned" /\ pc[2] = "resolved"
    /\ result[2] = Num(fibRecursive(Root(2).n))
    /\ Cardinality({i \in 1..Len(log[2]) : log[2][i].op = "pop"}) >= 4

\* C10: when a generator driven by run suspends with a function, run fails
\* with an error: the function is never handed back as an input and no
\* generator is resumed afterwards.
C10_RunRejectsDeferred ==
    \A d \in Drivers : mode[d] = "run" =>
        \A i \in 1..Len(log[d]) :
            TypeOf(heap[d], log[d][i].v) = "function" =>
                /\ log[d][i].op # "resume"
                /\ pc[d] = "threw" /\ result[d].t = "error"
                /\ \A j \in (i + 1)..Len(log[d]) : log[d][j].op # "resume"

\* ---------------------------------------------------------------- C11
GeneratorClasses == {"Generator", "AsyncGenerator"}
IsGeneratorObject(h, v) == IsRef(v) /\ h[v.v].cls \in GeneratorClasses
\* the positions in d's log where a deferred function was called that makes
\* no generator (it evaluates to undefined, null, a number, {}, an object
\* with only an iterator member, or another function)
InvalidCalls(d) ==
    {i \in 1..Len(log[d]) :
        /\ log[d][i].op = "call"
        /\ heap[d][log[d][i].v.v].mk \notin GeneratorClasses}

\* C11: once runTail (or runTailAsync) has called a deferred function whose
\* result is not a generator, no generator is resumed any more, the call
\* never returns a value, and what it ends with is a TypeError: the one the
\* driver throws itself (README listing) or the one raised by calling next
\* on the invalid result (index.ts).
C11_InvalidFactoryResultFails ==
    \A d \in Drivers : \A i \in InvalidCalls(d) :
        /\ mode[d] \in TailModes
        /\ \A j \in (i + 1)..Len(log[d]) :
              log[d][j].op = "resume" => ~IsGeneratorObject(heap[d], log[d][j].g)
        /\ ~Returned(d)
        /\ Ended(d) => Failed(d) /\ result[d] \in {TypeError, UsageError}
        /\ pc[d] \in {"loop", "await", "dispatch"} => ~IsGeneratorObject(heap[d], current[d])

\* runTail has failed after a deferred function returned a plain object, and
\* runTailAsync has rejected after the same
C11_Witness ==
    /\ \E d \in Drivers : \E i \in InvalidCalls(d) :
          /\ mode[d] = "runTail" /\ pc[d] = "threw"
          /\ heap[d][log[d][i].v.v].mk = "Object"
    /\ \E d \in Drivers : \E i \in InvalidCalls(d) :
          /\ mode[d] = "runTailAsync" /\ pc[d] = "rejected"

\* ---------------------------------------------------------------- C12
\* the generators of the kind d's driver is not made for
OtherVariant(d, v) ==
    /\ IsGeneratorObject(heap[d], v)
    /\ heap[d][v.v].cls = OtherClass(RootClass(mode[d]))

\* C12: no driver treats a generator of the other variant as a plain value,
\* pushes it or switches to it: once a generator has suspended with one, the
\* invocation can only fail, with a usage error.
C12_CrossVariantRejected ==
    \A d \in Drivers :
        /\ \A i \in 1..Len(log[d]) :
              log[d][i].op \in {"plain", "push", "switch"} => ~OtherVariant(d, log[d][i].v)
        /\ ~(Returned(d) /\ OtherVariant(d, result[d]))

\* ---------------------------------------------------------------- C13
\* C13: a generator that has completed or failed is never resumed again: no
\* resume of g follows g's completion or failure in any driver's history,
\* and a generator that suspends with an inert one makes the invocation fail.
C13_NoInertResumed ==
    \A d \in Drivers : \A i, j \in 1..Len(log[d]) :
        /\ i < j
        /\ log[d][i].op \in {"pop", "return", "throw"}
        /\ IsGeneratorObject(heap[d], log[d][i].g)
        /\ log[d][j].op = "resume"
        => log[d][j].g # log[d][i].g

\* ---------------------------------------------------------------- C14
\* what run's driver d decided about the value of each plain or push step:
\* it pushes exactly what its predicate (isGenerator for run,
\* isAsyncGenerator for the async run) answers true for
Classified(d, answer) ==
    {log[d][i].v : i \in {j \in 1..Len(log[d]) :
                            log[d][j].op = (IF answer THEN "push" ELSE "plain")}}

\* v was made by calling a generator function of class cls
MadeBy(d, v, cls) == IsRef(v) /\ heap[d][v.v].cls = cls /\ heap[d][v.v].mk = cls

\* C14: isGenerator answers true exactly for the objects made by a
\* function*, isAsyncGenerator exactly for those made by an async function*:
\* undefined, null, numbers, {}, functions and objects that only carry an
\* iterator (or async iterator) member are answered false by both, and no
\* class of value is answered true by both.
C14_PredicatesClassify ==
    /\ \A d \in Drivers : mode[d] \in RunModes =>
          /\ \A v \in Classified(d, TRUE) : MadeBy(d, v, RootClass(mode[d]))
          /\ \A v \in Classified(d, FALSE) : ~MadeBy(d, v, RootClass(mode[d]))
          /\ \A v \in Classified(d, FALSE) :
                /\ isGenerator(heap[d], v) = MadeBy(d, v, "Generator")
                /\ isAsyncGenerator(heap[d], v) = MadeBy(d, v, "AsyncGenerator")
                /\ ~(isGenerator(heap[d], v) /\ isAsyncGenerator(heap[d], v))
    /\ \A d, e \in Drivers : mode[d] = "run" /\ mode[e] = "runAsync" =>
          \A v \in Classified(d, TRUE) : \A w \in Classified(e, TRUE) :
              heap[d][v.v].cls # heap[e][w.v].cls

\* run and the async run have each handed back an object that carries only
\* an iterator member
C14_Witness ==
    \E d, e \in Drivers :
        /\ mode[d] = "run" /\ Returned(d)
        /\ \E v \in Classified(d, FALSE) : IsRef(v) /\ heap[d][v.v].cls = "Iterable"
        /\ mode[e] = "runAsync"
        /\ \E v \in Classified(e, FALSE) : IsRef(v) /\ heap[e][v.v].cls = "Iterable"

\* ---------------------------------------------------------------- C15
Last(s) == s[Len(s)]

\* C15: an invocation of run (and of the async run) is running, has returned
\* or has failed, never two of these.  When it has returned, no frame is
\* saved, current is the root, the root has completed, and the value
\* returned is the value of the root's return statement, which is the last
\* step of the history and its only return; when it has failed, the outcome
\* is an error.
C15_RunReturnsRootResultOrFails ==
    \A d \in Drivers : mode[d] \in RunModes =>
        /\ pc[d] \in {"loop", "await", "dispatch", "returned", "resolved", "threw", "rejected"}
        /\ Returned(d) =>
              /\ stackSize[d] = 0
              /\ current[d] = Ref(1)
              /\ Root(d).st = "done" /\ Root(d).by = 0
              /\ Last(log[d]) = Ev("return", Ref(1), result[d])
              /\ At(d, "return", 1) = {Len(log[d])}
              /\ \A g \in 2..Len(heap[d]) : At(d, "return", g) = {}
        /\ Failed(d) => result[d].t = "error" /\ At(d, "return", 1) = {}
        /\ ~Ended(d) => result[d] = Undefined

\* run has returned the root's result after children of children completed
C15_Witness ==
    \E d \in Drivers :
        /\ mode[d] = "run" /\ Returned(d)
        /\ Root(d).fn = "fibonacci" /\ Len(heap[d]) >= 5
        /\ result[d] = Num(fibRecursive(Root(d).n))

\* ---------------------------------------------------------------- C16
\* the resumptions d has issued whose outcome it has not yet acted on
Outstanding(d) ==
    {i \in 1..Len(log[d]) :
        /\ log[d][i].op = "resume"
        /\ \A j \in (i + 1)..Len(log[d]) : log[d][j].op = "resume"}

\* the steps that act on an outcome
OutcomeOps == {"return", "pop", "push", "plain", "call", "switch", "throw"}

\* C16: an asynchronous driver has at most one resumption outstanding.  It
\* has one exactly while it awaits the outcome or is about to act on it; no
\* resume follows a resume in its history, every return, pop, push, switch
\* or hand-back follows the resume whose outcome it acts on (a switch or
\* failure may follow the call of a deferred function instead), and while
\* the outcome is awaited the driver holds none.
C16_OneOutstandingResume ==
    \A d \in Drivers : mode[d] \in AsyncModes =>
        /\ Cardinality(Outstanding(d)) <= 1
        /\ (Outstanding(d) # {}) = (pc[d] \in {"await", "dispatch"})
        /\ pc[d] = "await" => r[d] = NoOutcome
        /\ pc[d] = "dispatch" => r[d].k \in {"yield", "return", "throw"}
        /\ \A i \in 1..Len(log[d]) :
              log[d][i].op \in OutcomeOps =>
                 /\ i > 1
                 /\ \/ log[d][i - 1].op = "resume"
                    \/ log[d][i - 1].op = "call" /\ log[d][i].op \in {"switch", "throw"}

\* an async run awaits the outcome of a resumption three frames deep
C16_Witness ==
    \E d \in Drivers :
        /\ mode[d] = "runAsync" /\ pc[d] = "await"
        /\ stackSize[d] >= 3
        /\ Cardinality(Outstanding(d)) = 1

\* ---------------------------------------------------------------- C17
\* the behaviours with two asynchronous invocations in flight together
IsConcurrentPair == mode[1] \in AsyncModes /\ mode[2] \in AsyncModes
\* all that invocation d holds: its generators, stack, current, pending
\* input, awaited outcome, position, result and history
Local(d) == <<heap[d], pc[d], stack[d], stackSize[d], current[d], ret[d], r[d], result[d], log[d]>>
\* how the invocation ends when nothing else runs: the value of the
\* reference computation, or the error of the generator that throws
\* (failing(n) throws in its n-th descendant, the generator n + 1)
AloneOutcome(d) ==
    LET p == [fn |-> args[d].genFunc, n |-> args[d].args[1], acc |-> args[d].args[2]]
    IN CASE p.fn = "failing" -> [pc |-> "rejected", v |-> Err(p.n + 1)]
         [] p.fn = "factorialThunk" -> [pc |-> "resolved", v |-> Num(factorialLoop(1, p.n, p.acc))]
         [] p.fn = "sum" -> [pc |-> "resolved", v |-> Num(sumLoop(1, p.n, p.acc))]
         [] OTHER -> [pc |-> "resolved", v |-> Num(NaiveRecursive(p))]

\* C17: with two asynchronous invocations in flight on unrelated programs,
\* in every interleaving of their steps each one ends as it ends alone, and
\* every step changes the generators, stack, current, pending input and
\* outcome of one invocation only.
C17_ConcurrentInvocationsIndependent ==
    /\ [](IsConcurrentPair /\ args[1].genFunc # args[2].genFunc =>
            \A d \in Drivers : Ended(d) =>
                pc[d] = AloneOutcome(d).pc /\ result[d] = AloneOutcome(d).v)
    /\ [][IsConcurrentPair =>
            \E d \in Drivers : \A e \in Drivers \ {d} : Local(e)' = Local(e)]_vars

\* an async run of fibonacci and an async runTail of the deferred factorial
\* have both ended while the other was in flight
C17_Witness ==
    /\ IsConcurrentPair
    /\ args[1].genFunc = "fibonacci" /\ args[2].genFunc = "factorialThunk"
    /\ args[1].args[1] >= 4
    /\ Ended(1) /\ Ended(2)
    /\ result[1] = Num(fibRecursive(args[1].args[1]))
    /\ result[2] = Num(factorialRecursive(args[2].args[1]))

\* ---------------------------------------------------------------- C18
\* C18: an asynchronous invocation never ends by a synchronous throw or a
\* synchronous return: it ends resolved or rejected.  Once one of its
\* generators has thrown, or a deferred function has returned something
\* that is no generator, it never resolves: when it has ended it is
\* rejected with an error, the generator's own or the driver's TypeError.
C18_AsyncFailuresReject ==
    \A d \in Drivers : mode[d] \in AsyncModes =>
        /\ pc[d] \notin {"threw", "returned"}
        /\ (Thrown(d) # {} \/ InvalidCalls(d) # {}) =>
              /\ pc[d] # "resolved"
              /\ pc[d] \in {"dispatch", "awaitCall", "rejected"}
              /\ pc[d] = "rejected" => result[d].t = "error"
        /\ \A g \in Thrown(d) : pc[d] = "rejected" => result[d] = Err(g)
        /\ InvalidCalls(d) # {} /\ pc[d] = "rejected" => result[d] = UsageError
        /\ pc[d] = "rejected" => Thrown(d) # {} \/ InvalidCalls(d) # {}

\* an async run is rejected with the error a generator two frames deep
\* threw
C18_Witness ==
    \E d \in Drivers :
        /\ mode[d] = "runAsync" /\ pc[d] = "rejected"
        /\ stackSize[d] >= 2
        /\ \E g \in Thrown(d) : result[d] = Err(g)

\* ---------------------------------------------------------------- C19
\* how many times the body of a generator function suspends at most
Suspensions(fn) == IF fn \in TwoBranch \cup {"plainSum", "ackermann"} THEN 2 ELSE 1

\* C19: on programs with a finite call tree whose generators suspend
\* finitely often, no generator is resumed more often than it suspends plus
\* once (its first resumption), and every invocation ends: it returns or
\* it fails.
C19_DriversTerminate ==
    /\ [](\A d \in Drivers : \A g \in 1..Len(heap[d]) :
             Cardinality(At(d, "resume", g)) <= Suspensions(heap[d][g].fn) + 1)
    /\ <>(\A d \in Drivers : Ended(d))

\* run has ended on the deepest linear recursion and runTail's async
\* variant beside it
C19_Witness ==
    /\ mode[1] = "run" /\ Root(1).fn = "deepSum" /\ Root(1).n = MaxN
    /\ Ended(1) /\ Ended(2)
    /\ Cardinality({i \in 1..Len(log[1]) : log[1][i].op = "resume"}) = 2 * MaxN + 1

\* ---------------------------------------------------------------- C20
\* the call run(genFunc, ...args) of invocation d, as a program
Called(d) == [fn |-> args[d].genFunc, n |-> args[d].args[1], acc |-> args[d].args[2]]
\* the generators of d that no generator's body created
MadeByDriver(d) == {g \in 1..Len(heap[d]) : heap[d][g].cls \in GeneratorClasses /\ heap[d][g].by = 0}

Did(d, op) == log'[d] # log[d] /\ log'[d][Len(log'[d])].op = op

\* C21: a plain value v received from the current generator is handed back
\* to that same generator: the step that receives it leaves the frame
\* array, stackSize and current as they were and makes v the pending
\* input, and the next event of the history is the resume of the same
\* generator with exactly v.
C21_PlainValueHandedBack ==
    /\ [](\A d \in Drivers : \A i \in 1..Len(log[d]) :
            log[d][i].op = "plain" =>
               /\ i < Len(log[d]) => log[d][i + 1] = Ev("resume", log[d][i].g, log[d][i].v)
               /\ i = Len(log[d]) =>
                     /\ pc[d] = "loop"
                     /\ current[d] = log[d][i].g
                     /\ ret[d] = log[d][i].v)
    /\ [][\A d \in Drivers : Did(d, "plain") =>
            /\ stack'[d] = stack[d]
            /\ stackSize'[d] = stackSize[d]
            /\ current'[d] = current[d]
            /\ ret'[d] = log'[d][Len(log'[d])].v]_vars

\* run has handed a plain number back to a generator three frames deep, and
\* that generator has been resumed with it
C21_Witness ==
    \E d \in Drivers : \E i \in 1..Len(log[d]) :
        /\ mode[d] = "run" /\ Root(d).fn = "plainSum"
        /\ stackSize[d] >= 3
        /\ log[d][i].op = "plain" /\ log[d][i].v.t = "number"
        /\ i + 2 = Len(log[d])
        /\ log[d][i + 1] = Ev("resume", log[d][i].g, log[d][i].v)
        /\ log[d][i + 2].op = "push"

\* ---------------------------------------------------------------- C22
\* the frames d holds: slots 0 .. stackSize - 1
Frames(d) == [i \in 0..(stackSize[d] - 1) |-> Slot(stack[d], i)]
\* the first resume of generator g in d's history (0 when there is none)
FirstResume(d, g) == IF At(d, "resume", g) = {} THEN 0 ELSE Min(At(d, "resume", g))

\* C22: the step of run (and of the async run) that receives a generator
\* from the current one adds exactly one frame, holding the generator that
\* suspended, on top of the frames there were, makes the child current and
\* clears the pending input; the first resume of every generator, the root
\* included, carries null, whatever its parent was last resumed with.
C22_PushSavesOneFrame ==
    /\ [](\A d \in Drivers : mode[d] \in RunModes =>
            /\ log[d] # <<>> => log[d][1] = Ev("resume", Ref(1), Null)
            /\ \A g \in 1..Len(heap[d]) :
                  FirstResume(d, g) # 0 => log[d][FirstResume(d, g)].v = Null
            /\ \A i \in 1..Len(log[d]) :
                  (log[d][i].op = "push" /\ i < Len(log[d])) =>
                      log[d][i + 1] = Ev("resume", log[d][i].v, Null))
    /\ [][\A d \in Drivers : (mode[d] \in RunModes /\ Did(d, "push")) =>
            /\ stackSize'[d] = stackSize[d] + 1
            /\ Frames(d)' = [i \in 0..stackSize[d] |->
                               IF i < stackSize[d] THEN Frames(d)[i] ELSE Frame(current[d])]
            /\ current'[d] = log'[d][Len(log'[d])].v
            /\ current'[d] # current[d]
            /\ ret'[d] = Null]_vars

\* run has pushed fibonacci's second child while the pending input was the
\* first child's result, and resumed that child with null
C22_Witness ==
    \E d \in Drivers : \E i \in 2..Len(log[d]) :
        /\ mode[d] = "run" /\ Root(d).fn = "fibonacci"
        /\ log[d][i].op = "push"
        /\ log[d][i - 1].op = "resume" /\ log[d][i - 1].v.t = "number"
        /\ i < Len(log[d])
        /\ log[d][i + 1] = Ev("resume", log[d][i].v, Null)
        /\ stackSize[d] >= 2

\* ---------------------------------------------------------------- C23
\* C23: the step of run (and of the async run) in which the current
\* generator completes with r while frames are saved removes exactly the top
\* frame, leaves every lower frame as it was, makes the generator of the
\* removed frame current and r the pending input; the next event of the
\* history is the resume of that parent with exactly r.
C23_PopRestoresParent ==
    /\ [](\A d \in Drivers : mode[d] \in RunModes =>
            \A i \in 1..Len(log[d]) :
                log[d][i].op = "pop" =>
                   /\ heap[d][log[d][i].g.v].by # 0
                   /\ i < Len(log[d]) =>
                         log[d][i + 1] = Ev("resume", Ref(heap[d][log[d][i].g.v].by), log[d][i].v)
                   /\ i = Len(log[d]) =>
                         /\ current[d] = Ref(heap[d][log[d][i].g.v].by)
                         /\ ret[d] = log[d][i].v)
    /\ [][\A d \in Drivers : (mode[d] \in RunModes /\ Did(d, "pop")) =>
            /\ stackSize[d] >= 1
            /\ stackSize'[d] = stackSize[d] - 1
            /\ Frames(d)' = [i \in 0..(stackSize[d] - 2) |-> Frames(d)[i]]
            /\ current'[d] = Frames(d)[stackSize[d] - 1].generator
            /\ ret'[d] = log'[d][Len(log'[d])].v
            /\ pc'[d] = "loop"]_vars

\* run has popped a frame with two frames below it and the parent is about
\* to be resumed with the child's result
C23_Witness ==
    \E d \in Drivers :
        /\ mode[d] = "run" /\ Root(d).fn = "deepSum"
        /\ stackSize[d] >= 2
        /\ log[d] # <<>> /\ Last(log[d]).op = "pop"
        /\ ret[d] = Last(log[d]).v /\ ret[d].t = "number" /\ ret[d].v >= 1
        /\ current[d] = Slot(stack[d], stackSize[d]).generator

\* ---------------------------------------------------------------- C24
\* the generators of d, numbered in the order their creating suspensions
\* were produced
Generators(d) == {g \in 1..Len(heap[d]) : heap[d][g].cls \in GeneratorClasses}
IsAncestor(h, a, g) == \E i \in 1..Len(Ancestors(h, g)) : Ancestors(h, g)[i] = a
\* the step at which the driver saw g complete (0 when it has not)
Completion(d, g) == IF Completions(d, g) = {} THEN 0 ELSE Max(Completions(d, g))

\* event k of d's history is in depth-first order with all before it.
\* If it is the first resume of g: every generator produced before g has
\* been first resumed, those that are not ancestors of g (the subtrees of
\* earlier siblings of g and of its ancestors) have completed, and no
\* ancestor has.  If it is the completion of g: the generators completed
\* before are exactly the descendants of g and the earlier generators that
\* are not its ancestors.
InDepthFirstOrder(d, k) ==
    LET e == log[d][k]
        g == e.g.v
        before(op, x) == \E i \in At(d, op, x) : i < k
        completed(x) == before("pop", x) \/ before("return", x)
    IN /\ (e.op = "resume" /\ ~before("resume", g)) =>
             \A x \in Generators(d) : x < g =>
                 /\ before("resume", x)
                 /\ completed(x) = ~IsAncestor(heap[d], x, g)
       /\ e.op \in {"pop", "return"} =>
             \A x \in Generators(d) \ {g} :
                 completed(x) = (IsAncestor(heap[d], g, x) \/ (x < g /\ ~IsAncestor(heap[d], x, g)))

\* C24: run (and the async run) first-resumes the generators in depth-first
\* pre-order, the order in which their suspensions are produced, and sees
\* them complete in post-order; no generator is first resumed before the
\* subtree of every earlier sibling has completed.  A step appends at most
\* two events and every history extends the one before, so each event is
\* examined in the state whose step appended it.
C24_DepthFirstOrder ==
    \A d \in Drivers : mode[d] \in RunModes =>
        \A k \in 1..Len(log[d]) : k + 1 >= Len(log[d]) => InDepthFirstOrder(d, k)

\* run has returned on the test's tree: all seven nodes and their eight
\* absent children were visited, the left subtree completed before the
\* right one was first resumed
C24_Witness ==
    \E d \in Drivers :
        /\ mode[d] = "run" /\ Returned(d)
        /\ Root(d).fn = "traverse" /\ Root(d).n = 1
        /\ Cardinality(Generators(d)) = 2 * TreeSize + 1
        /\ \A g \in Generators(d) : Completion(d, g) # 0
        /\ \E l, rr \in Children(d, 1) :
              l < rr /\ Completion(d, l) < FirstResume(d, rr)

\* ---------------------------------------------------------------- C25
\* the events the step appends to d's history
Appended(d) == {log'[d][i] : i \in (Len(log[d]) + 1)..Len(log'[d])}
OnStack(d, g) == \E i \in 1..stackSize[d] : Saved(d)[i] = g

\* C25: under run (and the async run) no generator is saved in two frames
\* and the current generator is saved in none; every resume a step performs
\* is a resume of the generator that is current when the step begins, which
\* is then on no frame, so a saved generator is never resumed while saved.
C25_OnlyCurrentResumed ==
    /\ [](\A d \in Drivers : mode[d] \in RunModes =>
            /\ ~OnStack(d, current[d])
            /\ \A i, j \in 1..stackSize[d] : Saved(d)[i] = Saved(d)[j] => i = j)
    /\ [][\A d \in Drivers : mode[d] \in RunModes =>
            \A e \in Appended(d) :
                e.op = "resume" => e.g = current[d] /\ ~OnStack(d, e.g)]_vars

\* run resumes the current generator with four distinct generators saved
C25_Witness ==
    \E d \in Drivers :
        /\ mode[d] = "run" /\ stackSize[d] = 4
        /\ Cardinality({Saved(d)[i] : i \in 1..stackSize[d]}) = 4
        /\ Last(log[d]).op = "pop"
        /\ log[d][Len(log[d]) - 1] = Ev("resume", Last(log[d]).g, Null)

\* ---------------------------------------------------------------- C26
\* C26: once the resumption of a generator g has thrown, that resume is
\* the last one of the invocation: the only event after it is the failure
\* itself, the driver is at no point from which it resumes anything, g is
\* still current and the only generator that failed, and under run every
\* ancestor of g is still saved, suspended where it was, neither resumed
\* with the error nor completed.
C26_NothingResumedAfterFailure ==
    \A d \in Drivers : \A g \in Thrown(d) :
        LET k == Max(At(d, "resume", g)) IN
        /\ Thrown(d) = {g}
        /\ pc[d] \in {"dispatch", "threw", "rejected"}
        /\ current[d] = Ref(g)
        /\ k + 1 >= Len(log[d])
        /\ \A i \in (k + 1)..Len(log[d]) : log[d][i] = Ev("throw", Ref(g), Err(g))
        /\ mode[d] \in RunModes =>
              /\ stackSize[d] = Len(Ancestors(heap[d], g))
              /\ \A i \in 1..stackSize[d] :
                    /\ Saved(d)[i] = Ref(Ancestors(heap[d], g)[i])
                    /\ heap[d][Saved(d)[i].v].st = "yield"
                    /\ Cardinality(At(d, "resume", Saved(d)[i].v)) = 1

\* run has failed with three parents saved, each resumed once and still
\* suspended
C26_Witness ==
    \E d \in Drivers : \E g \in Thrown(d) :
        /\ mode[d] = "run" /\ pc[d] = "threw"
        /\ stackSize[d] = 3
        /\ \A i \in 1..stackSize[d] : heap[d][Saved(d)[i].v].st = "yield"
        /\ Last(log[d]) = Ev("throw", Ref(g), Err(g))

\* ---------------------------------------------------------------- C27
\* the programs whose nested generator is not in tail position: the parent
\* combines the child's result with n, or with another child's result
NonTail == {"factorial", "fibonacci", "deepSum", "traverse", "plainSum"}

\* C27: runTail (and its async variant) on a program whose nested
\* generators are not in tail position never fails.  Every generator that
\* was resumed before the current one is left suspended at the yield that
\* produced its successor and has never completed, so no parent's combination is ever
\* applied; when the call returns, the current generator is the last one
\* produced and the value returned is its own return value, the value of
\* the recursion on ITS arguments, not on the root's.
C27_TailDropsParents ==
    \A d \in Drivers : (mode[d] \in TailModes /\ Root(d).fn \in NonTail) =>
        /\ ~Failed(d)
        /\ stackSize[d] = 0
        /\ \A g \in Generators(d) : (Ref(g) # current[d] /\ FirstResume(d, g) # 0) =>
              /\ heap[d][g].st = "yield"
              /\ Completions(d, g) = {}
              /\ At(d, "switch", g) # {}
              /\ Max(At(d, "resume", g)) < Min(At(d, "switch", g))
        /\ Returned(d) =>
              /\ current[d] = Ref(Len(heap[d]))
              /\ Last(log[d]) = Ev("return", current[d], result[d])
              /\ Callees(Program(d, current[d].v)) = {}
              /\ result[d] = Num(NaiveRecursive(Program(d, current[d].v)))

\* runTail has returned 0 for deepSum(MaxN), the value of deepSum(0), with
\* MaxN parents left suspended
C27_Witness ==
    \E d \in Drivers :
        /\ mode[d] = "runTail" /\ Returned(d)
        /\ Root(d).fn = "deepSum" /\ Root(d).n = MaxN
        /\ result[d] = Num(0)
        /\ result[d] # Num(NaiveRecursive(Root(d)))
        /\ Cardinality({g \in Generators(d) : heap[d][g].st = "yield"}) = MaxN

\* ---------------------------------------------------------------- C28
\* the objects of d that calls of the arrow function f have made: they carry
\* the creator and the program f closes over
MadeByCalling(d, f) ==
    {c \in 1..Len(heap[d]) :
        /\ c > f
        /\ heap[d][c].cls = heap[d][f].mk
        /\ heap[d][c].by = heap[d][f].by
        /\ Program(d, c) = Program(d, f)}

\* C28: for every arrow function f that runTail (or its async variant)
\* receives, f is called once: one call event names f, it follows at once
\* the resume that produced f, and one generator exists that a call of f
\* made.  That generator is switched to at once, and the resume that
\* follows is its first and carries null.
C28_FactoryCalledOnce ==
    \A d \in Drivers : mode[d] \in TailModes =>
        \A i \in 1..Len(log[d]) : log[d][i].op = "call" =>
            LET f == log[d][i].v.v IN
            /\ heap[d][f].cls = "Function"
            /\ {j \in 1..Len(log[d]) : log[d][j].op = "call" /\ log[d][j].v = Ref(f)} = {i}
            /\ i > 1 /\ log[d][i - 1].op = "resume" /\ log[d][i - 1].g = log[d][i].g
            /\ heap[d][f].by = log[d][i].g.v
            /\ heap[d][f].mk \in GeneratorClasses =>
                  /\ Cardinality(MadeByCalling(d, f)) = 1
                  /\ i < Len(log[d]) =>
                        /\ log[d][i + 1] = Ev("switch", log[d][i].g, Ref(f + 1))
                        /\ MadeByCalling(d, f) = {f + 1}
                  /\ i + 1 < Len(log[d]) => log[d][i + 2] = Ev("resume", Ref(f + 1), Null)
                  /\ i + 1 = Len(log[d]) =>
                        current[d] = Ref(f + 1) /\ ret[d] = Null /\ heap[d][f + 1].st = "start"

\* runTail has called MaxN - 1 arrow functions, each once, and returned
C28_Witness ==
    \E d \in Drivers :
        /\ mode[d] = "runTail" /\ Returned(d)
        /\ Root(d).fn = "factorialThunk" /\ Root(d).n = MaxN
        /\ Cardinality({i \in 1..Len(log[d]) : log[d][i].op = "call"}) = MaxN - 1
        /\ Cardinality(Generators(d)) = MaxN

\* ---------------------------------------------------------------- C29
\* C29: run on ackermann(m, n), where the result of one nested generator is
\* the argument of the next, and on isEven(k) and isOdd(k), where the
\* nested generator comes from the other generator function, never fails
\* and returns what the ordinary recursive function returns, for every
\* m up to AckermannM, n up to MaxSeed and k up to MaxN.
C29_NestedAndMutualRecursion ==
    \A d \in Drivers : mode[d] = "run" =>
        /\ Root(d).fn \in {"ackermann", "isEven", "isOdd"} => ~Failed(d)
        /\ (Returned(d) /\ Root(d).fn = "ackermann") =>
              result[d] = Num(ackermannRecursive(Root(d).n, Root(d).acc))
        /\ (Returned(d) /\ Root(d).fn = "isEven") => result[d] = Bool(isEvenRecursive(Root(d).n))
        /\ (Returned(d) /\ Root(d).fn = "isOdd") => result[d] = Bool(isOddRecursive(Root(d).n))

\* run has returned 7 for ackermann(2, 2) and, beside it, false for
\* isEven(5)
C29_Witness ==
    /\ mode[1] = "run" /\ Returned(1)
    /\ Program(1, 1) = [fn |-> "ackermann", n |-> 2, acc |-> 2]
    /\ result[1] = Num(7)
    /\ \E g \in Generators(1) : heap[1][g].acc > 2
    /\ mode[2] = "run" /\ Returned(2)
    /\ Program(2, 1) = [fn |-> "isEven", n |-> 5, acc |-> 0]
    /\ result[2] = Bool(FALSE)

\* ---------------------------------------------------------------- C30
\* one step of invocation d that is the driver's own: everything but the
\* settling of the promise it awaits, which is the awaited computation's
DriverStep(d) ==
    \/ RunThrow(d) \/ RunReturn(d) \/ RunPop(d) \/ RunPush(d) \/ RunPlain(d)
    \/ TailThrow(d) \/ TailReturn(d) \/ TailCall(d) \/ TailSwitch(d) \/ TailPlain(d)
    \/ AsyncNext(d) \/ AsyncReject(d)
    \/ RunAsyncReturn(d) \/ RunAsyncPop(d) \/ RunAsyncPush(d) \/ RunAsyncPlain(d)
    \/ TailAsyncReturn(d) \/ TailAsyncCall(d) \/ TailAsyncCalled(d)
    \/ TailAsyncInvalid(d) \/ TailAsyncSwitch(d) \/ TailAsyncPlain(d)

\* Every invocation's loop runs on, but nothing makes an awaited
\* resumption settle: it may stay pending for ever.
DriverFairSpec == Spec /\ \A d \in Drivers : WF_vars(DriverStep(d))

\* the promise of the async invocation d is pending / has settled
Pending(d) == mode[d] \in AsyncModes /\ pc[d] \notin {"resolved", "rejected"}
Settled(d) == mode[d] \in AsyncModes /\ pc[d] \in {"resolved", "rejected"}
\* invocation d is not waiting for a resumption to settle
NotAwaiting(d) == mode[d] \in AsyncModes /\ pc[d] # "await"

\* C30: for the async run and the async runTail on programs with a finite
\* call tree whose generators suspend finitely often: while its promise is
\* pending an invocation is awaiting a resumption or its loop can take a
\* step; a promise that has settled never changes again; and if every
\* resumption the invocation awaits settles, its promise settles, so a
\* promise that stays pending for ever is one whose invocation waits for
\* ever for one resumption.
C30_PromiseSettlesUnlessAwaiting ==
    /\ [](\A d \in Drivers : Pending(d) => pc[d] = "await" \/ ENABLED DriverStep(d))
    /\ [][\A d \in Drivers : Settled(d) =>
             pc'[d] = pc[d] /\ result'[d] = result[d] /\ log'[d] = log[d]]_vars
    /\ \A d \in Drivers : ([]<>NotAwaiting(d)) => <>Settled(d)

\* an async run has resolved after awaiting the resumptions of the deepest
\* linear recursion, each of them settled
C30_Witness ==
    \E d \in Drivers :
        /\ mode[d] = "runAsync" /\ pc[d] = "resolved"
        /\ Root(d).fn = "deepSum" /\ Root(d).n = MaxN
        /\ Cardinality({i \in 1..Len(log[d]) : log[d][i].op = "resume"}) = 2 * MaxN + 1

\* ---------------------------------------------------------------- C31
\* the positions of the synchronous loops and of the asynchronous loops
SyncPcs == {"loop", "returned", "threw"}
AsyncPcs == {"loop", "await", "dispatch", "awaitCall", "resolved", "rejected"}
\* the events a step appended to the history of d
NewEvents(d) == SubSeq(log'[d], Len(log[d]) + 1, Len(log'[d]))

\* C31: the variant of an invocation is the one its root decides and never
\* changes, whatever the nested computations are.  A root for which
\* isAsyncGenerator holds is driven by the asynchronous loop only (every
\* resumption is awaited on its own step, and the outcome is a promise that
\* resolves or rejects); any other root, a generator or not, is driven by
\* the synchronous loop only (every iteration is one uninterrupted step
\* from the resumption on, and the call returns or throws directly).
C31_VariantFromRootAlone ==
    /\ [](\A d \in Drivers :
            /\ mode[d] = Dispatch(Entry(mode[d]), heap[d], Ref(1))
            /\ isAsyncGenerator(heap[d], Ref(1)) => mode[d] \in AsyncModes /\ pc[d] \in AsyncPcs
            /\ ~isAsyncGenerator(heap[d], Ref(1)) => mode[d] \in SyncModes /\ pc[d] \in SyncPcs)
    /\ [][\A d \in Drivers :
            /\ mode'[d] = mode[d]
            /\ (mode[d] \in SyncModes /\ log'[d] # log[d]) =>
                  /\ Len(NewEvents(d)) >= 2
                  /\ NewEvents(d)[1] = Ev("resume", current[d], ret[d])
            /\ (mode[d] \in AsyncModes /\ log'[d] # log[d]) =>
                  /\ Len(NewEvents(d)) = 1
                  /\ pc'[d] # pc[d]]_vars

\* run has ended on a generator and, beside it, the promise of run on the
\* async generator of the same program has settled, each having met a
\* nested generator of the other variant
C31_Witness ==
    /\ mode[1] = "run" /\ Root(1).cls = "Generator" /\ pc[1] \in {"returned", "threw"}
    /\ mode[2] = "runAsync" /\ Root(2).cls = "AsyncGenerator" /\ pc[2] \in {"resolved", "rejected"}
    /\ \E g \in 1..Len(heap[1]) : heap[1][g].cls = "AsyncGenerator"
    /\ \E g \in 1..Len(heap[2]) : heap[2][g].cls = "Generator"

\* ---------------------------------------------------------------- C32
\* the pushes among the first k events of history l that no later pop
\* among them has matched, oldest first: the generators they saved
RECURSIVE OpenFrames(_, _)
OpenFrames(l, k) ==
    IF k = 0 THEN <<>>
    ELSE LET rest == OpenFrames(l, k - 1) IN
         CASE l[k].op = "push" -> Append(rest, l[k].g)
           [] l[k].op = "pop" /\ rest # <<>> -> SubSeq(rest, 1, Len(rest) - 1)
           [] OTHER -> rest
Open(d) == OpenFrames(log[d], Len(log[d]))

\* C32: in run and its async variant stackSize is never negative and is
\* the number of pushes not yet popped; the slots below stackSize hold
\* exactly the frames those pushes wrote, also above the pre-allocated
\* capacity; every pop finds stackSize positive and makes current the
\* generator the latest unpopped push saved; and no invocation fails at a
\* pop ('Stack frame is undefined' in the listing, the TypeError of
\* stack[stackSize].generator in index.ts).
C32_PopsReadPushedFrames ==
    /\ [](\A d \in Drivers : Entry(mode[d]) = "run" =>
            /\ stackSize[d] >= 0
            /\ stackSize[d] = Len(Open(d))
            /\ Frames(d) = [i \in 0..(stackSize[d] - 1) |-> Frame(Open(d)[i + 1])]
            /\ result[d] # StackFrameError
            /\ Failed(d) => Last(log[d]).op = "throw")
    /\ [][\A d \in Drivers : Did(d, "pop") =>
            /\ stackSize[d] >= 1
            /\ Slot(stack[d], stackSize[d] - 1) # NoFrame
            /\ current'[d] = Last(Open(d))
            /\ stackSize'[d] = stackSize[d] - 1]_vars

\* run has returned from the deepest linear recursion: its frame array
\* has grown past the pre-allocated capacity, and every frame was popped
C32_Witness ==
    \E d \in Drivers :
        /\ mode[d] = "run" /\ Returned(d)
        /\ Root(d).fn = "deepSum" /\ Root(d).n = MaxN
        /\ Len(stack[d]) = MaxN /\ MaxN > StackCapacity
        /\ Cardinality({i \in 1..Len(log[d]) : log[d][i].op = "pop"}) = MaxN
        /\ stackSize[d] = 0

\* ---------------------------------------------------------------- C33
\* the class of a produced value v for the runTail variant m, decided in
\* the order of the branches: callable, generator of the variant, plain
TailClass(m, h, v) ==
    IF TypeOf(h, v) = "function" THEN "call"
    ELSE IF (m = "runTail" /\ isGenerator(h, v)) \/ (m = "runTailAsync" /\ isAsyncGenerator(h, v))
    THEN "switch"
    ELSE "plain"

\* C33: in runTail and its async variant every produced value is handled
\* by the branch of its class and by no other: the step that receives a
\* value records it under its class (a callable is called, a generator of
\* the driver's variant is switched into, anything else is handed back);
\* no callable is ever handed back, no generator is ever resumed with a
\* callable as its input, and a switch that follows no call is into the
\* produced value itself.
C33_TailClassifiesInOrder ==
    /\ [](\A d \in Drivers : Entry(mode[d]) = "runTail" =>
            \A i \in 1..Len(log[d]) :
                /\ log[d][i].op = "plain" => TailClass(mode[d], heap[d], log[d][i].v) = "plain"
                /\ log[d][i].op = "call" => TailClass(mode[d], heap[d], log[d][i].v) = "call"
                /\ log[d][i].op = "switch" =>
                      \/ i > 1 /\ log[d][i - 1].op = "call"
                      \/ TailClass(mode[d], heap[d], log[d][i].v) = "switch"
                /\ log[d][i].op = "resume" => TypeOf(heap[d], log[d][i].v) # "function")
    /\ [][\A d \in Drivers :
            /\ (AtLoop(d, "runTail") /\ log'[d] # log[d] /\ Resumed(d).k = "yield") =>
                  /\ NewEvents(d)[2].op = TailClass("runTail", Resumed(d).h, Resumed(d).v)
                  /\ NewEvents(d)[2].v = Resumed(d).v
            /\ (AtDispatch(d, "runTailAsync") /\ log'[d] # log[d] /\ r[d].k = "yield") =>
                  /\ NewEvents(d)[1].op = TailClass("runTailAsync", heap[d], r[d].v)
                  /\ NewEvents(d)[1].v = r[d].v]_vars

\* runTail and, beside it, its async variant have each received a
\* callable from every generator of factorialThunk but the last, called it
\* and switched into the generator it returned
C33_Witness ==
    /\ mode[1] = "runTail" /\ mode[2] = "runTailAsync"
    /\ Root(1).fn = "factorialThunk" /\ Root(1).n = MaxN
    /\ \A d \in Drivers :
          /\ Returned(d)
          /\ Cardinality({i \in 2..Len(log[d]) :
                 /\ log[d][i].op = "switch" /\ log[d][i - 1].op = "call"
                 /\ TypeOf(heap[d], log[d][i - 1].v) = "function"
                 /\ TailClass(mode[d], heap[d], log[d][i].v) = "switch"}) = MaxN - 1

\* ---------------------------------------------------------------- C34
\* the behaviours that run one tail-position program under run (invocation
\* 1) and under runTail (invocation 2)
IsCrossDriverPair ==
    /\ mode[1] = "run" /\ mode[2] = "runTail"
    /\ args[1] = args[2]
    /\ Called(1) \in TailPrograms
\* how many events of kind op the history of d holds
Count(d, op) == Cardinality({i \in 1..Len(log[d]) : log[d][i].op = op})
\* the slots of the frame array of d that were ever written
Written(d) == {i \in 1..Len(stack[d]) : stack[d][i] # NoFrame}

\* C34: on a program whose nested calls are all `return yield f(...)` and
\* whose suspensions carry no callable, run and runTail never fail, create
\* the same generators and return the same value; run has saved one frame
\* per nested generator by the time it returns (its stack grew to the
\* length of the chain), runTail has switched once per nested generator
\* and has saved nothing at any time.
C34_RunAndRunTailAgree ==
    IsCrossDriverPair =>
        /\ ~Failed(1) /\ ~Failed(2)
        /\ stackSize[2] = 0 /\ stack[2] = <<>>
        /\ stackSize[1] <= Cardinality(Generators(1)) - 1
        /\ Returned(1) =>
              /\ Count(1, "push") = Cardinality(Generators(1)) - 1
              /\ Cardinality(Written(1)) = Cardinality(Generators(1)) - 1
        /\ Returned(2) =>
              /\ Count(2, "switch") = Cardinality(Generators(2)) - 1
              /\ Count(2, "push") = 0 /\ Count(2, "pop") = 0
        /\ (Returned(1) /\ Returned(2)) =>
              /\ result[1] = result[2]
              /\ Len(heap[1]) = Len(heap[2])
              /\ \A g \in 1..Len(heap[1]) :
                    Program(1, g) = Program(2, g) /\ heap[1][g].cls = heap[2][g].cls

\* run and runTail have both returned sum(MaxN, MaxSeed): run with MaxN
\* frames written, past the pre-allocated capacity, runTail with none
C34_Witness ==
    /\ IsCrossDriverPair
    /\ Called(1) = [fn |-> "sum", n |-> MaxN, acc |-> MaxSeed]
    /\ Returned(1) /\ Returned(2)
    /\ result[1] = result[2] /\ result[2] = Num(MaxSeed + (MaxN * (MaxN + 1)) \div 2)
    /\ Cardinality(Written(1)) = MaxN /\ stack[2] = <<>>

====
